---------------------------- MODULE Spec2Model ----------------------------
(***************************************************************************)
(* FybrikApplication controller: Reconcile, reconcileFinalizers,           *)
(* deleteExternalResources, reconcile (the planning run), checkReadiness,  *)
(* the Plotter interface and the Dataset provisioner, for ONE application  *)
(* object and the resources it owns.                                       *)
(*                                                                         *)
(* One Reconcile call is one step.  The stored application status changes  *)
(* only through Status().Update; the in-memory copy the call works on      *)
(* (applicationContext) is threaded through the operators as w.st.         *)
(* Every external call can fail: a call of Reconcile carries at most one   *)
(* injected fault <<call, target>>.                                        *)
(***************************************************************************)
EXTENDS Integers, Sequences, FiniteSets, TLC

\* the number of generations (spec versions) the user goes through
MaxGen == 2

\* the number of Reconcile calls in which an external call fails
MaxFaults == 1

------------------------------------------------------------------------------
(* Error descriptions (app.* constants) and the two requeue periods.        *)

InvalidAssetID == "InvalidAssetID"
ReadAccessDenied == "ReadAccessDenied"
CopyNotAllowed == "CopyNotAllowed"
WriteNotAllowed == "WriteNotAllowed"
ModuleNotFound == "ModuleNotFound"
InvalidClusterConfiguration == "InvalidClusterConfiguration"
TransportError == "TransportError"
OrchestrationError == "failure to orchestrate modules"

\* seconds, Reconcile line 111
RequeueNotFinal == 10
\* seconds, reconcile line 381
RequeueStorage == 2

------------------------------------------------------------------------------
(* The datasets a data user can name, with what the catalog, the policy     *)
(* manager and the module registry answer for each.                        *)

AllowDataset == "s3/allow-dataset"
DenyDataset == "s3/deny-dataset"
UnknownDataset == "s3/unknown-dataset"
NoReadDataset == "db2/allow-dataset"
CopyDataset == "db2/redact-dataset"
IngestDataset == "s3-external/allow-theshire"

DataSets ==
    {AllowDataset, DenyDataset, UnknownDataset, NoReadDataset, CopyDataset, IngestDataset}

\* the catalog backend: InvalidArgument for an id it does not know
CatalogKnows(d) == d # UnknownDataset

\* the policy manager's decision for the read operation
ReadDenied(d) == d = DenyDataset

\* the planner's need-for-copy decision
CopyRequired(d) == d \in {CopyDataset, IngestDataset}

\* is there a read module for what the data context asks for
ReadModuleFound(d) == d # NoReadDataset

\* a data context: dataSetID and requirements.copy.catalog.catalogID
DataContext(d) ==
    [dataSetID |-> d, catalogID |-> IF d = IngestDataset THEN "katalog" ELSE ""]

\* a data context that asks for the copy of d to be registered in the catalog
IngestContext(d) == [dataSetID |-> d, catalogID |-> "katalog"]

\* the values of spec.data the user submits
DataChoices ==
    {<<>>,
     <<DataContext(AllowDataset)>>,
     <<DataContext(DenyDataset)>>,
     <<DataContext(CopyDataset)>>,
     <<DataContext(IngestDataset)>>,
     <<DataContext(CopyDataset), DataContext(IngestDataset)>>,
     <<IngestContext(CopyDataset), DataContext(IngestDataset)>>,
     <<DataContext(DenyDataset), DataContext(NoReadDataset)>>,
     <<DataContext(UnknownDataset), DataContext(AllowDataset)>>,
     <<DataContext(CopyDataset), DataContext(DenyDataset)>>,
     <<DataContext(AllowDataset), DataContext(CopyDataset)>>}

\* the name of the bucket (Dataset resource) allocated for the copy of d: made of the
\* application's name, the dataset id and the generation
BucketName(d, generation) == "notebook-default/" \o d \o "/" \o ToString(generation)

Buckets ==
    {BucketName(d, g) : d \in {x \in DataSets : CopyRequired(x)}, g \in 1..MaxGen}

------------------------------------------------------------------------------
(* Values.                                                                 *)

\* a nil *ResourceReference
NilRef == [name |-> "", namespace |-> "", kind |-> "", appVersion |-> 0]

NoCondition == [status |-> FALSE, message |-> <<>>]

EmptyMap == [x \in {} |-> 0]

\* app.ObservedState{}
EmptyObservedState == [ready |-> FALSE, error |-> "", dataAccessInstructions |-> ""]

NoPlotter ==
    [exists |-> FALSE, blueprints |-> <<>>, labels |-> <<>>,
     observedState |-> EmptyObservedState]

\* the status of a new application
EmptyStatus ==
    [ready |-> FALSE,
     error |-> NoCondition,
     deny |-> NoCondition,
     dataAccessInstructions |-> "",
     generated |-> NilRef,
     provisionedStorage |-> EmptyMap,
     catalogedAssets |-> EmptyMap,
     readEndpointsMap |-> EmptyMap,
     observedGeneration |-> 0]

RemoveKey(m, k) == [x \in DOMAIN m \ {k} |-> m[x]]

PutKey(m, k, v) == [x \in DOMAIN m \cup {k} |-> IF x = k THEN v ELSE m[x]]

\* the map m with the entries of n added
Merge(m, n) == [x \in DOMAIN m \cup DOMAIN n |-> IF x \in DOMAIN n THEN n[x] ELSE m[x]]

Range(s) == {s[i] : i \in DOMAIN s}

\* a set as a sequence, in some order (Go's map iteration order is not fixed)
RECURSIVE SetToSeq(_)
SetToSeq(S) ==
    IF S = {} THEN <<>>
    ELSE LET x == CHOOSE y \in S : TRUE IN <<x>> \o SetToSeq(S \ {x})

VARIABLES
    meta,       \* the application's metadata: generation, deletion timestamp, finalizer
    data,       \* spec.data
    status,     \* the stored status of the application
    plotter,    \* the Plotter resource of the application
    buckets,    \* the Dataset resources: bucket name -> provisioning state
    assets,     \* the datasets registered in the catalog by RegisterAsset
    faults,     \* the number of Reconcile calls so far in which an external call failed
    last,       \* the last Reconcile call: its result and what it did
    cluster,    \* ProvisionImpl on its own: the Dataset resources the API server holds
    pcall,      \* ProvisionImpl on its own: the last call and what it returned
    registry,   \* the Selector on its own: the moduleMap
    sel,        \* the Selector on its own: the Selector
    scall,      \* the Selector on its own: the last call and what it returned
    plotters,   \* PlotterInterface on its own: the plotters of the control plane
    gcall       \* PlotterInterface on its own: the last call

\* the controller's variables, and the variables of the packages taken on their own
ctrlVars == <<meta, data, status, plotter, buckets, assets, faults, last>>

provVars == <<cluster, pcall>>

selVars == <<registry, sel, scall>>

genVars == <<plotters, gcall>>

libVars == <<provVars, selVars, genVars>>

vars == <<ctrlVars, libVars>>

------------------------------------------------------------------------------
(* ProvisionImpl on its own: the Dataset resources with their content, and  *)
(* the client calls that can be refused.                                   *)

\* the name of the Dataset resource the calls are about
DatasetRefs == {"bucket-a"}

\* ProvisionedBucket: Name, Endpoint, SecretRef (Name, Namespace)
ProvisionedBucket(name, endpoint, secretName, secretNamespace) ==
    [Name |-> name, Endpoint |-> endpoint,
     SecretRef |-> [Name |-> secretName, Namespace |-> secretNamespace]]

\* a bucket, and the buckets that differ from it in one field
ProvisionedBuckets ==
    {ProvisionedBucket("bucket-a", "http://theshire", "credentials-theshire", "default"),
     ProvisionedBucket("bucket-b", "http://theshire", "credentials-theshire", "default"),
     ProvisionedBucket("bucket-a", "http://neverland", "credentials-theshire", "default"),
     ProvisionedBucket("bucket-a", "http://theshire", "credentials-neverland", "default"),
     ProvisionedBucket("bucket-a", "http://theshire", "credentials-theshire", "fybrik-system")}

\* the owners: the application's name and namespace
Owners ==
    {[Name |-> "notebook", Namespace |-> "default"],
     [Name |-> "ingest", Namespace |-> "default"]}

\* the client call that is refused in a call of ProvisionImpl ("" is none)
ClientFaults == {"", "Get", "Delete", "Create", "Update"}

\* no Dataset resource under the name
NoDataset == [exists |-> FALSE, local |-> <<>>, labels |-> <<>>, provision |-> <<>>]

\* getDatasetAsUnstructured: the error of Client.Get is nil
getDataset(store, ref, f) == store[ref].exists /\ f # "Get"

\* getValue: the string at the path, "" when there is none
getValue(obj, key) == IF key \in DOMAIN obj THEN obj[key] ELSE ""

\* equal without the comparison of the endpoints (lines 104-106)
equalButEndpoint(required, existing) ==
    /\ required.Name = getValue(existing.local, "bucket")
    /\ required.SecretRef.Name = getValue(existing.local, "secret-name")
    /\ required.SecretRef.Namespace = getValue(existing.local, "secret-namespace")

\* equal: the existing Dataset is for the required bucket
equal(required, existing) ==
    /\ required.Name = getValue(existing.local, "bucket")
    /\ required.Endpoint = getValue(existing.local, "endpoint")
    /\ required.SecretRef.Name = getValue(existing.local, "secret-name")
    /\ required.SecretRef.Namespace = getValue(existing.local, "secret-namespace")

\* CreateDataset, lines 129-145: the Dataset that is created
newDataset(bucket, owner) ==
    [exists |-> TRUE,
     local |-> ("type" :> "COS") @@ ("secret-name" :> bucket.SecretRef.Name)
               @@ ("secret-namespace" :> bucket.SecretRef.Namespace)
               @@ ("endpoint" :> bucket.Endpoint) @@ ("bucket" :> bucket.Name)
               @@ ("provision" :> "true"),
     labels |-> ("fybrik.io/owner" :> (owner.Namespace \o "." \o owner.Name))
                @@ ("remove-on-delete" :> "true"),
     provision |-> <<>>]

\* ProvisionImpl.DeleteDataset with the content of the resources: [err, store, trace]
ProvisionImplDeleteDataset(store, ref, f) ==
    IF ~getDataset(store, ref, f)
    THEN [err |-> "Get failed", store |-> store, trace |-> <<"Get">>]
    ELSE IF f = "Delete"
    THEN [err |-> "Delete failed", store |-> store, trace |-> <<"Get", "Delete">>]
    ELSE [err |-> "", store |-> [store EXCEPT ![ref] = NoDataset],
          trace |-> <<"Get", "Delete">>]

\* CreateDataset, lines 129-145: d is what DeleteDataset returned, or the store as it
\* was when there was nothing to delete
createAfter(d, ref, bucket, owner, f) ==
    IF d.err # "" THEN d
    ELSE IF f = "Create" \/ d.store[ref].exists
    THEN [err |-> "Create failed", store |-> d.store, trace |-> Append(d.trace, "Create")]
    ELSE [err |-> "", store |-> [d.store EXCEPT ![ref] = newDataset(bucket, owner)],
          trace |-> Append(d.trace, "Create")]

\* ProvisionImpl.CreateDataset with the content of the resources: [err, store, trace]
ProvisionImplCreateDataset(store, ref, bucket, owner, f) ==
    IF getDataset(store, ref, f)
    THEN IF equal(bucket, store[ref])
         THEN [err |-> "", store |-> store, trace |-> <<"Get">>]
         ELSE createAfter([ProvisionImplDeleteDataset(store, ref, f) EXCEPT
                             !.trace = <<"Get">> \o @],
                          ref, bucket, owner, f)
    ELSE createAfter([err |-> "", store |-> store, trace |-> <<"Get">>],
                     ref, bucket, owner, f)

\* ProvisionImpl.SetPersistent with the content of the resources: [err, store, trace]
ProvisionImplSetPersistent(store, ref, persistent, f) ==
    IF ~getDataset(store, ref, f)
    THEN [err |-> "Get failed", store |-> store, trace |-> <<"Get">>]
    ELSE IF f = "Update"
    THEN [err |-> "Update failed", store |-> store, trace |-> <<"Get", "Update">>]
    ELSE [err |-> "",
          store |-> [store EXCEPT ![ref].labels =
                        ("remove-on-delete" :> (IF persistent THEN "false" ELSE "true"))
                        @@ @],
          trace |-> <<"Get", "Update">>]

\* ProvisionImpl.GetDatasetStatus with the content of the resources:
\* [err, Provisioned, ErrorMsg]
ProvisionImplGetDatasetStatus(store, ref, f) ==
    IF ~getDataset(store, ref, f)
    THEN [err |-> "Get failed", Provisioned |-> FALSE, ErrorMsg |-> ""]
    ELSE [err |-> "",
          Provisioned |-> getValue(store[ref].provision, "status") = "OK",
          ErrorMsg |-> getValue(store[ref].provision, "info")]

\* what the storage backend writes to status.provision of a Dataset
ProvisionReports ==
    {("status" :> "OK"), ("status" :> "Failed") @@ ("info" :> "provisioning failed")}

NoProvisionCall ==
    [op |-> "none", ref |-> "", bucket |-> <<>>, owner |-> <<>>, fault |-> "", err |-> "",
     trace |-> <<>>, result |-> <<>>]

\* a call of CreateDataset
CallCreateDataset(ref, bucket, owner, f) ==
    /\ cluster' = ProvisionImplCreateDataset(cluster, ref, bucket, owner, f).store
    /\ pcall' = [NoProvisionCall EXCEPT
                  !.op = "CreateDataset", !.ref = ref, !.bucket = bucket, !.owner = owner,
                  !.fault = f,
                  !.err = ProvisionImplCreateDataset(cluster, ref, bucket, owner, f).err,
                  !.trace = ProvisionImplCreateDataset(cluster, ref, bucket, owner, f).trace]
    /\ UNCHANGED <<ctrlVars, selVars, genVars>>

\* a call of DeleteDataset
CallDeleteDataset(ref, f) ==
    /\ cluster' = ProvisionImplDeleteDataset(cluster, ref, f).store
    /\ pcall' = [NoProvisionCall EXCEPT
                  !.op = "DeleteDataset", !.ref = ref, !.fault = f,
                  !.err = ProvisionImplDeleteDataset(cluster, ref, f).err,
                  !.trace = ProvisionImplDeleteDataset(cluster, ref, f).trace]
    /\ UNCHANGED <<ctrlVars, selVars, genVars>>

\* a call of SetPersistent
CallSetPersistent(ref, persistent, f) ==
    /\ cluster' = ProvisionImplSetPersistent(cluster, ref, persistent, f).store
    /\ pcall' = [NoProvisionCall EXCEPT
                  !.op = "SetPersistent", !.ref = ref, !.fault = f,
                  !.err = ProvisionImplSetPersistent(cluster, ref, persistent, f).err,
                  !.trace = ProvisionImplSetPersistent(cluster, ref, persistent, f).trace]
    /\ UNCHANGED <<ctrlVars, selVars, genVars>>

\* a call of GetDatasetStatus
CallGetDatasetStatus(ref, f) ==
    /\ pcall' = [NoProvisionCall EXCEPT
                  !.op = "GetDatasetStatus", !.ref = ref, !.fault = f,
                  !.err = ProvisionImplGetDatasetStatus(cluster, ref, f).err,
                  !.result = ProvisionImplGetDatasetStatus(cluster, ref, f)]
    /\ UNCHANGED <<cluster, ctrlVars, selVars, genVars>>

\* the storage backend reports on a Dataset
ProvisionReport(ref, report) ==
    /\ cluster[ref].exists
    /\ cluster[ref].provision = <<>>
    /\ cluster' = [cluster EXCEPT ![ref].provision = report]
    /\ pcall' = NoProvisionCall
    /\ UNCHANGED <<ctrlVars, selVars, genVars>>

------------------------------------------------------------------------------
(* The Selector on its own: a registry of modules (moduleMap), a Selector   *)
(* and the calls of SelectModule and SelectCluster.                        *)

MaxRegistry == 3      \* the most modules in a registry
MaxDepth == 4         \* the depth at which a CheckDependencies recursion is given up
MaxDependencies == 3  \* SelectModule is not called on a Selector that holds more

Read == "read"
Copy == "copy"
Write == "write"
Transform == "transform"

\* app.DependencyType
Module == "module"
Connector == "connector"

\* app.InterfaceDetails
InterfaceDetails(protocol, dataformat) == [Protocol |-> protocol, DataFormat |-> dataformat]

ArrowFlight == InterfaceDetails("arrow-flight", "arrow")
S3Parquet == InterfaceDetails("s3", "parquet")
Db2Table == InterfaceDetails("jdbc-db2", "table")
NoInterface == InterfaceDetails("", "")

\* an action: the id and the level, in a module's capability and in a requirement
Action(id, level) == [ID |-> id, Level |-> level]

RedactColumn == Action("redact-ID", "COLUMN")
RedactDataset == Action("redact-ID", "DATASET")
RemoveColumn == Action("removed-ID", "COLUMN")

\* app.ModuleInOut
InOut(source, sink) == [Source |-> source, Sink |-> sink]

\* app.ModuleCapability
Capability(capability, api, interfaces, actions) ==
    [Capability |-> capability, API |-> api, SupportedInterfaces |-> interfaces,
     Actions |-> actions]

\* app.Dependency
Dependency(type, name) == [Type |-> type, Name |-> name]

\* app.FybrikModule
FybrikModule(name, capabilities, dependencies) ==
    [Name |-> name, Capabilities |-> capabilities, Dependencies |-> dependencies]

\* the modules a registry can hold
AllModules ==
    {FybrikModule("read-path",
                  <<Capability(Read, ArrowFlight, <<>>, <<RedactColumn, RemoveColumn>>)>>,
                  <<>>),
     \* the api of one block, the actions of another
     FybrikModule("read-split",
                  <<Capability(Read, ArrowFlight, <<>>, <<>>),
                    Capability(Read, S3Parquet, <<>>, <<RedactColumn>>)>>,
                  <<>>),
     \* needs helper and base, and helper needs base
     FybrikModule("read-deps",
                  <<Capability(Read, ArrowFlight, <<>>, <<RedactColumn>>)>>,
                  <<Dependency(Module, "helper"), Dependency(Connector, "vault"),
                    Dependency(Module, "base")>>),
     FybrikModule("helper",
                  <<Capability(Transform, NoInterface, <<>>, <<RedactDataset>>)>>,
                  <<Dependency(Module, "base")>>),
     FybrikModule("base", <<Capability(Transform, NoInterface, <<>>, <<>>)>>, <<>>),
     FybrikModule("copy-db2",
                  <<Capability(Copy, NoInterface,
                               <<InOut(S3Parquet, S3Parquet), InOut(Db2Table, S3Parquet)>>,
                               <<RedactColumn>>)>>,
                  <<>>),
     \* depends on itself
     FybrikModule("copy-loop",
                  <<Capability(Copy, NoInterface, <<InOut(Db2Table, S3Parquet)>>, <<>>)>>,
                  <<Dependency(Module, "copy-loop")>>),
     FybrikModule("write-s3",
                  <<Capability(Write, S3Parquet, <<>>, <<RedactColumn>>),
                    Capability(Read, S3Parquet, <<>>, <<>>)>>,
                  <<>>)}

\* a moduleMap: module name -> module
ModuleMap(modules) ==
    [name \in {m.Name : m \in modules} |-> CHOOSE m \in modules : m.Name = name]

Registries == {ModuleMap(ms) : ms \in {s \in SUBSET AllModules : Cardinality(s) <= MaxRegistry}}

\* the orders in which a range over a map can visit its keys
Orders(keys) ==
    {order \in [1..Cardinality(keys) -> keys] :
        \A i, j \in 1..Cardinality(keys) : order[i] = order[j] => i = j}

Regions == {"theshire", "neverland"}

\* multicluster.Cluster
Cluster(name, region) == [Name |-> name, Metadata |-> [Region |-> region]]

ClusterLists ==
    {<<>>,
     <<Cluster("thegreendragon", "theshire")>>,
     <<Cluster("thegreendragon", "theshire"), Cluster("seconddragon", "theshire"),
       Cluster("neverland-cluster", "neverland")>>,
     <<Cluster("neverland-cluster", "neverland"), Cluster("lostboys", "neverland")>>}

RequiredActions == {<<>>, <<RedactColumn>>, <<RedactColumn, RemoveColumn>>, <<RedactDataset>>}

NoModule == <<>>

\* before a Selector is made
NoSelector == [Capability |-> ""]

\* a Selector as the module manager makes it
Selector(capability, source, destination, actions, geo) ==
    [Module |-> NoModule, Dependencies |-> <<>>, Message |-> <<>>,
     Capability |-> capability, Source |-> source, Destination |-> destination,
     Actions |-> actions, Geo |-> geo]

\* utils.GetModuleCapabilities: the capability blocks of the module for the capability
GetModuleCapabilities(module, capability) ==
    SelectSeq(module.Capabilities, LAMBDA cap : cap.Capability = capability)

\* SupportsGovernanceAction without the comparison of the levels
SupportsGovernanceActionAnyLevel(m, module, action) ==
    \E cap \in Range(GetModuleCapabilities(module, m.Capability)) :
        \E act \in Range(cap.Actions) : act.ID = action.ID

\* Selector.SupportsGovernanceAction
SupportsGovernanceAction(m, module, action) ==
    \E cap \in Range(GetModuleCapabilities(module, m.Capability)) :
        \E act \in Range(cap.Actions) : act.ID = action.ID /\ act.Level = action.Level

\* Selector.SupportsGovernanceActions
SupportsGovernanceActions(m, module, actions) ==
    \A action \in Range(actions) : SupportsGovernanceAction(m, module, action)

\* CheckDependencies, the recursion unrolled: work holds the dependencies still to
\* visit, in the order of the recursion, each with the depth of its call
RECURSIVE checkDependencies(_, _, _, _)
checkDependencies(work, moduleMap, found, missing) ==
    IF work = <<>> THEN [found |-> found, missing |-> missing, overflow |-> FALSE]
    ELSE IF Head(work).depth > MaxDepth
    THEN [found |-> found, missing |-> missing, overflow |-> TRUE]
    ELSE IF Head(work).dependency.Type # Module
    THEN checkDependencies(Tail(work), moduleMap, found, missing)
    ELSE IF Head(work).dependency.Name \notin DOMAIN moduleMap
    THEN checkDependencies(Tail(work), moduleMap, found,
                           Append(missing, Head(work).dependency.Name))
    ELSE checkDependencies(
             [i \in DOMAIN moduleMap[Head(work).dependency.Name].Dependencies |->
                 [dependency |-> moduleMap[Head(work).dependency.Name].Dependencies[i],
                  depth |-> Head(work).depth + 1]] \o Tail(work),
             moduleMap, Append(found, Head(work).dependency.Name), missing)

\* CheckDependencies: [found, missing, overflow]; overflow when the recursion does
\* not end (the goroutine's stack runs out)
CheckDependencies(module, moduleMap) ==
    checkDependencies([i \in DOMAIN module.Dependencies |->
                          [dependency |-> module.Dependencies[i], depth |-> 1]],
                      moduleMap, <<>>, <<>>)

\* SupportsDependencies taking the module whatever CheckDependencies has returned
dependenciesCheckedIgnoreMissing(m, module, moduleMap, r) ==
    IF r.overflow THEN [sel |-> m, result |-> "overflow"]
    ELSE [sel |-> [m EXCEPT !.Module = module,
                            !.Dependencies = @ \o [i \in DOMAIN r.found |->
                                                      moduleMap[r.found[i]]]],
          result |-> "true"]

\* SupportsDependencies once CheckDependencies has returned
dependenciesChecked(m, module, moduleMap, r) ==
    IF r.overflow THEN [sel |-> m, result |-> "overflow"]
    ELSE IF Len(r.missing) > 0
    THEN [sel |-> [m EXCEPT !.Message = @ \o <<module.Name \o " has missing dependencies: ">>
                                          \o [i \in DOMAIN r.missing |-> "\n" \o r.missing[i]]
                                          \o <<"\n">>],
          result |-> "false"]
    ELSE [sel |-> [m EXCEPT !.Module = module,
                            !.Dependencies = @ \o [i \in DOMAIN r.found |->
                                                      moduleMap[r.found[i]]]],
          result |-> "true"]

\* Selector.SupportsDependencies: [sel, result]
SupportsDependencies(m, module, moduleMap) ==
    dependenciesChecked(m, module, moduleMap, CheckDependencies(module, moduleMap))

\* Selector.SupportsInterface
SupportsInterface(m, module) ==
    \/ /\ m.Capability = Read
       /\ \E cap \in Range(GetModuleCapabilities(module, m.Capability)) :
             /\ cap.API.DataFormat = m.Destination.DataFormat
             /\ cap.API.Protocol = m.Destination.Protocol
    \/ /\ m.Capability = Copy
       /\ \E cap \in Range(GetModuleCapabilities(module, m.Capability)) :
             \E inter \in Range(cap.SupportedInterfaces) :
                /\ inter.Source.DataFormat = m.Source.DataFormat
                /\ inter.Source.Protocol = m.Source.Protocol
                /\ inter.Sink.DataFormat = m.Destination.DataFormat
                /\ inter.Sink.Protocol = m.Destination.Protocol

\* the loop of SelectModule from the i-th module of the order on
RECURSIVE selectFrom(_, _, _, _)
RECURSIVE selectChecked(_, _, _, _)
selectFrom(m, order, i, moduleMap) ==
    IF i > Len(order)
    THEN [sel |-> [m EXCEPT !.Message = Append(@, m.Capability \o " : " \o ModuleNotFound)],
          result |-> "false"]
    ELSE IF ~SupportsInterface(m, moduleMap[order[i]])
    THEN selectFrom(m, order, i + 1, moduleMap)
    ELSE IF ~SupportsGovernanceActions(m, moduleMap[order[i]], m.Actions)
    THEN selectFrom(m, order, i + 1, moduleMap)
    ELSE selectChecked(SupportsDependencies(m, moduleMap[order[i]], moduleMap),
                       order, i, moduleMap)

\* the loop of SelectModule once SupportsDependencies has returned for the i-th module
selectChecked(r, order, i, moduleMap) ==
    IF r.result = "false" THEN selectFrom(r.sel, order, i + 1, moduleMap) ELSE r

\* Selector.SelectModule, the range over moduleMap visiting the names in the order:
\* [sel, result]
SelectModule(m, order, moduleMap) ==
    selectFrom([m EXCEPT !.Message = <<>>], order, 1, moduleMap)

\* the first cluster of the list in the region, "" when there is none
RECURSIVE firstCluster(_, _, _)
firstCluster(clusters, i, geo) ==
    IF i > Len(clusters) THEN ""
    ELSE IF clusters[i].Metadata.Region = geo THEN clusters[i].Name
    ELSE firstCluster(clusters, i + 1, geo)

\* SelectCluster running every module at the processing location
targetGeographyAlwaysGeo(m, geography) == m.Geo

\* SelectCluster: the geography the module is to run in
targetGeography(m, geography) ==
    IF m.Capability = Read THEN m.Geo
    ELSE IF m.Capability = Copy /\ Len(m.Actions) = 0 THEN m.Geo
    ELSE geography

\* SelectCluster once the clusters have been searched: [cluster, err]
clusterFound(m, name, geo) ==
    IF name # "" THEN [cluster |-> name, err |-> ""]
    ELSE IF m.Module = NoModule THEN [cluster |-> "", err |-> "panic"]
    ELSE [cluster |-> "",
          err |-> InvalidClusterConfiguration \o "\nNo clusters have been found for running "
                  \o m.Module.Name \o " in " \o geo]

\* Selector.SelectCluster for an item whose DataDetails.Geography is geography
SelectCluster(m, geography, clusters) ==
    clusterFound(m, firstCluster(clusters, 1, targetGeography(m, geography)),
                 targetGeography(m, geography))

\* app.ModuleArguments: the transformations the module is to apply
ModuleArguments(actions) == [Transformations |-> actions]

\* DataInfo: the data context of the application the instance is made for
DataInfo(d) == [Context |-> [DataSetID |-> d]]

\* ModuleInstanceSpec
ModuleInstanceSpec(module, args, assetID, clusterName) ==
    [Module |-> module, Args |-> args, AssetID |-> assetID, ClusterName |-> clusterName]

\* Selector.AddModuleInstances: an instance of the selected module and one of each
\* dependency, all of them with the arguments of the call
AddModuleInstances(m, args, item, clusterName) ==
    <<ModuleInstanceSpec(m.Module, args, item.Context.DataSetID, clusterName)>>
    \o [i \in 1..Len(m.Dependencies) |->
          ModuleInstanceSpec(m.Dependencies[i], args, item.Context.DataSetID,
                             clusterName)]

NoSelectorCall ==
    [op |-> "none", before |-> NoSelector, order |-> <<>>, result |-> "",
     geography |-> "", clusters |-> <<>>, cluster |-> "", err |-> "",
     args |-> <<>>, instances |-> <<>>]

\* the Selectors the module manager makes: read and write modules have a destination,
\* copy modules a source and a destination
Selectors ==
    {Selector(Read, NoInterface, destination, actions, geo) :
        destination \in {ArrowFlight, S3Parquet}, actions \in RequiredActions,
        geo \in Regions}
    \cup {Selector(Copy, source, S3Parquet, actions, geo) :
             source \in {Db2Table, S3Parquet}, actions \in {<<>>, <<RedactColumn>>},
             geo \in Regions}
    \cup {Selector(Write, NoInterface, destination, actions, geo) :
             destination \in {ArrowFlight, S3Parquet}, actions \in {<<>>, <<RedactColumn>>},
             geo \in Regions}

\* the module manager makes a Selector
NewSelector(m) ==
    /\ sel' = m
    /\ scall' = NoSelectorCall
    /\ UNCHANGED <<registry, provVars, genVars, ctrlVars>>

\* a call of SelectModule; a recursion that does not end takes the process down and
\* the Selector with it
CallSelectModule(order) ==
    /\ sel # NoSelector
    /\ Len(sel.Dependencies) <= MaxDependencies
    /\ sel' = IF SelectModule(sel, order, registry).result = "overflow" THEN NoSelector
              ELSE SelectModule(sel, order, registry).sel
    /\ scall' = [NoSelectorCall EXCEPT
                  !.op = "SelectModule", !.before = sel, !.order = order,
                  !.result = SelectModule(sel, order, registry).result]
    /\ UNCHANGED <<registry, provVars, genVars, ctrlVars>>

\* a call of SelectCluster
CallSelectCluster(geography, clusters) ==
    /\ sel # NoSelector
    /\ scall' = [NoSelectorCall EXCEPT
                  !.op = "SelectCluster", !.before = sel, !.geography = geography,
                  !.clusters = clusters,
                  !.cluster = SelectCluster(sel, geography, clusters).cluster,
                  !.err = SelectCluster(sel, geography, clusters).err]
    /\ UNCHANGED <<sel, registry, provVars, genVars, ctrlVars>>

\* a call of AddModuleInstances
CallAddModuleInstances(args, item, clusterName) ==
    /\ sel # NoSelector
    /\ scall' = [NoSelectorCall EXCEPT
                  !.op = "AddModuleInstances", !.before = sel, !.args = args,
                  !.instances = AddModuleInstances(sel, args, item, clusterName)]
    /\ UNCHANGED <<sel, registry, provVars, genVars, ctrlVars>>

\* before a call of the PlotterInterface
NoPlotterCall ==
    [op |-> "none", owner |-> NilRef, ref |-> NilRef, before |-> NoPlotter, err |-> ""]

\* the library variables while the controller runs
LibIdle ==
    /\ cluster = [ref \in DatasetRefs |-> NoDataset]
    /\ pcall = NoProvisionCall
    /\ registry = ModuleMap({})
    /\ sel = NoSelector
    /\ scall = NoSelectorCall
    /\ plotters = <<>>
    /\ gcall = NoPlotterCall

------------------------------------------------------------------------------
(* Injected faults: <<call, target>>.  NoFault makes every call succeed    *)
(* unless the state itself makes it fail (a resource that is not there).   *)

NoFault == <<"", "">>

Faults ==
    {NoFault}
    \cup {<<c, "">> : c \in {"Update", "DeleteResource", "GetClusters", "GetAllModules",
                             "CreateOrUpdateResource", "GetResourceStatus",
                             "RegisterAsset", "StatusUpdate", "GetDatasetInfo",
                             "GetPoliciesDecisions", "GetDatasetStatus", "CreateDataset",
                             "SetPersistent"}}
    \cup {<<"DeleteDataset", b>> : b \in Buckets}
    \cup {<<"CreateOrUpdateResource", InvalidClusterConfiguration>>}

\* a faulted service fails every call of the kind; a DeleteDataset fault is for one
\* bucket; the plotter write fails with some error or with InvalidClusterConfiguration
Fails(f, call, target) == f[1] = call /\ f[2] \in {"", target}

\* an external call, as recorded in the trace of a Reconcile call
Event(call, target) == <<call, target>>

------------------------------------------------------------------------------
(* Conditions of the application status.                                   *)

resetConditions(st) ==
    [st EXCEPT !.ready = FALSE, !.error = NoCondition, !.deny = NoCondition]

setErrorCondition(st, assetID, msg) ==
    [st EXCEPT !.error = [status |-> TRUE, message |-> Append(@.message, <<assetID, msg>>)]]

setDenyCondition(st, assetID, msg) ==
    [st EXCEPT !.deny = [status |-> TRUE, message |-> Append(@.message, <<assetID, msg>>)]]

setReadyCondition(st, assetID) == [st EXCEPT !.ready = TRUE]

errorOrDeny(st) == st.error.status \/ st.deny.status

inFinalState(st) == st.ready \/ errorOrDeny(st)

getErrorMessages(st) == st.error.message \o st.deny.message

\* AnalyzeError with the case of line 485 left out: every error is an Error condition
AnalyzeErrorAsError(st, assetID, err) ==
    IF err = "" THEN st ELSE setErrorCondition(st, assetID, err)

\* AnalyzeError with InvalidAssetID taken out of the case of line 485
AnalyzeErrorUnknownAsError(st, assetID, err) ==
    IF err = "" THEN st
    ELSE IF err \in {ReadAccessDenied, CopyNotAllowed, WriteNotAllowed}
         THEN setDenyCondition(st, assetID, err)
         ELSE setErrorCondition(st, assetID, err)

\* AnalyzeError: an error of a data context becomes a Deny or an Error condition
AnalyzeError(st, assetID, err) ==
    IF err = "" THEN st
    ELSE IF err \in {InvalidAssetID, ReadAccessDenied, CopyNotAllowed, WriteNotAllowed}
         THEN setDenyCondition(st, assetID, err)
         ELSE setErrorCondition(st, assetID, err)

------------------------------------------------------------------------------
(* ProvisionImpl: the Dataset resources.  A Dataset is absent, or present  *)
(* with the provisioning status its backend reports and its                *)
(* remove-on-delete label (persistent = the label is "false").             *)

AbsentBucket == [provision |-> "absent", persistent |-> FALSE]

getDatasetAsUnstructured(bk, ref) == bk[ref].provision # "absent"

\* DeleteDataset: [ok, buckets]
DeleteDataset(bk, ref, f) ==
    IF getDatasetAsUnstructured(bk, ref) /\ ~Fails(f, "DeleteDataset", ref)
    THEN [ok |-> TRUE, buckets |-> [bk EXCEPT ![ref] = AbsentBucket]]
    ELSE [ok |-> FALSE, buckets |-> bk]

\* CreateDataset: the bucket asked for under one name is always the same, so an
\* existing Dataset is equal to the required one
CreateDataset(bk, ref, f) ==
    IF getDatasetAsUnstructured(bk, ref)
    THEN [ok |-> TRUE, buckets |-> bk]
    ELSE IF Fails(f, "CreateDataset", ref)
         THEN [ok |-> FALSE, buckets |-> bk]
         ELSE [ok |-> TRUE,
               buckets |-> [bk EXCEPT ![ref] = [provision |-> "pending", persistent |-> FALSE]]]

SetPersistent(bk, ref, persistent, f) ==
    IF getDatasetAsUnstructured(bk, ref) /\ ~Fails(f, "SetPersistent", ref)
    THEN [ok |-> TRUE, buckets |-> [bk EXCEPT ![ref].persistent = persistent]]
    ELSE [ok |-> FALSE, buckets |-> bk]

\* GetDatasetStatus: [ok, provisioned, errorMsg]
GetDatasetStatus(bk, ref, f) ==
    IF getDatasetAsUnstructured(bk, ref) /\ ~Fails(f, "GetDatasetStatus", ref)
    THEN [ok |-> TRUE,
          provisioned |-> bk[ref].provision = "ok",
          errorMsg |-> IF bk[ref].provision = "failed" THEN "provisioning failed" ELSE ""]
    ELSE [ok |-> FALSE, provisioned |-> FALSE, errorMsg |-> ""]

------------------------------------------------------------------------------
(* PlotterInterface.                                                       *)

\* CreateResourceReference with the version of the owner left out
CreateResourceReferenceNoVersion(owner) ==
    [name |-> owner.name \o "-" \o owner.namespace, namespace |-> "fybrik-system",
     kind |-> "Plotter", appVersion |-> 0]

CreateResourceReference(owner) ==
    [name |-> owner.name \o "-" \o owner.namespace, namespace |-> "fybrik-system",
     kind |-> "Plotter", appVersion |-> owner.appVersion]

\* ownerLabels: the labels that name the application of a plotter
ownerLabels(id) == [namespace |-> id.namespace, name |-> id.name]

ResourceExists(pl, ref) ==
    IF ref = NilRef \/ ref.namespace = "" THEN FALSE ELSE pl.exists

\* CreateOrUpdateResource: [err, plotter, written], err "" is nil
CreateOrUpdateResource(pl, owner, blueprintPerClusterMap, f) ==
    IF pl.exists /\ pl.blueprints = blueprintPerClusterMap
    THEN [err |-> "", plotter |-> pl, written |-> FALSE]
    ELSE IF f[1] = "CreateOrUpdateResource"
         THEN [err |-> IF f[2] = "" THEN TransportError ELSE f[2],
               plotter |-> pl, written |-> FALSE]
         ELSE [err |-> "",
               plotter |-> [pl EXCEPT !.exists = TRUE,
                                      !.blueprints = blueprintPerClusterMap,
                                      !.labels = ownerLabels(owner)],
               written |-> TRUE]

\* DeleteResource: [ok, plotter]
DeleteResource(pl, ref, f) ==
    IF pl.exists /\ ~Fails(f, "DeleteResource", "")
    THEN [ok |-> TRUE, plotter |-> NoPlotter]
    ELSE [ok |-> FALSE, plotter |-> pl]

\* GetResourceStatus: [ok, state]
GetResourceStatus(pl, ref, f) ==
    IF ref = NilRef \/ ref.namespace = ""
    THEN [ok |-> TRUE, state |-> EmptyObservedState]
    ELSE IF pl.exists /\ ~Fails(f, "GetResourceStatus", "")
         THEN [ok |-> TRUE, state |-> pl.observedState]
         ELSE [ok |-> FALSE, state |-> EmptyObservedState]

------------------------------------------------------------------------------
(* PlotterInterface on its own: the applications of several namespaces     *)
(* share the plotters of the control-plane namespace.                      *)

\* the applications: names and namespaces with and without a hyphen
Applications ==
    {[name |-> name, namespace |-> namespace, kind |-> "", appVersion |-> 1] :
        name \in {"notebook", "notebook-test"}, namespace \in {"default", "test-default"}}

\* the names a plotter of the control-plane namespace can have
PlotterNames == {CreateResourceReference(owner).name : owner \in Applications}

\* the blueprints of a plotter, by cluster
BlueprintMaps == {<<"read">>, <<"copy", "read">>}

\* the controller of an application creates or updates the plotter of the application
CallCreateOrUpdateResource(owner, ref, blueprintPerClusterMap) ==
    /\ plotters' = [plotters EXCEPT
                      ![ref.name] = CreateOrUpdateResource(@, owner, blueprintPerClusterMap,
                                                           NoFault).plotter]
    /\ gcall' = [op |-> "CreateOrUpdateResource", owner |-> owner, ref |-> ref,
                 before |-> plotters[ref.name], err |-> ""]
    /\ UNCHANGED <<ctrlVars, provVars, selVars>>

\* the controller of an application deletes the plotter of the application
CallDeleteResource(owner, ref) ==
    /\ plotters' = [plotters EXCEPT ![ref.name] = DeleteResource(@, ref, NoFault).plotter]
    /\ gcall' = [op |-> "DeleteResource", owner |-> owner, ref |-> ref,
                 before |-> plotters[ref.name],
                 err |-> IF DeleteResource(plotters[ref.name], ref, NoFault).ok THEN ""
                         ELSE "not found"]
    /\ UNCHANGED <<ctrlVars, provVars, selVars>>

------------------------------------------------------------------------------
(* One Reconcile call works on w: the stored metadata, the in-memory       *)
(* status st, the resources, the trace of its external calls, the error it *)
(* returns ("" is nil) and whether it wrote the plotter.                   *)

Log(w, call, target) == [w EXCEPT !.trace = Append(@, Event(call, target))]

\* deleteExternalResources, lines 208-212: r is what DeleteDataset returned for the
\* bucket of d; the key of a deleted bucket is collected
deleteBucket(w, d, ref, r) ==
    [Log(w, "DeleteDataset", ref) EXCEPT
        !.buckets = r.buckets,
        !.st.provisionedStorage = IF r.ok THEN RemoveKey(@, d) ELSE @]

\* deleteExternalResources, lines 207-216: DeleteDataset for each recorded bucket;
\* the keys of the deleted ones leave the status
RECURSIVE deleteBuckets(_, _, _)
deleteBuckets(w, keys, f) ==
    IF keys = <<>> THEN w
    ELSE deleteBuckets(
           deleteBucket(w, Head(keys), w.st.provisionedStorage[Head(keys)].datasetRef,
                        DeleteDataset(w.buckets,
                                      w.st.provisionedStorage[Head(keys)].datasetRef, f)),
           Tail(keys), f)

\* deleteExternalResources, lines 226-229: r is what DeleteResource returned
deleteGenerated(w, r) ==
    IF ~r.ok THEN [w EXCEPT !.err = "DeleteResource failed"]
    ELSE [w EXCEPT !.plotter = r.plotter, !.st.generated = NilRef]

\* deleteExternalResources, lines 217-230: w is the call after the loop over the buckets
deletePlotter(w, f) ==
    IF DOMAIN w.st.provisionedStorage # {}
    THEN [w EXCEPT !.err = "DeleteDataset failed"]
    ELSE IF w.st.generated = NilRef THEN w
    ELSE deleteGenerated(Log(w, "DeleteResource", ""),
                         DeleteResource(w.plotter, w.st.generated, f))

\* deleteExternalResources without lines 217-219: a failed bucket deletion is ignored
deleteExternalResourcesIgnoreFailures(w, f) ==
    LET w1 == deleteBuckets(w, SetToSeq(DOMAIN w.st.provisionedStorage), f)
    IN IF w1.st.generated = NilRef THEN w1
       ELSE LET r == DeleteResource(w1.plotter, w1.st.generated, f)
                w2 == Log(w1, "DeleteResource", "")
            IN IF ~r.ok THEN [w2 EXCEPT !.err = "DeleteResource failed"]
               ELSE [w2 EXCEPT !.plotter = r.plotter, !.st.generated = NilRef]

\* deleteExternalResources, lines 202-231
deleteExternalResources(w, f) ==
    deletePlotter(deleteBuckets(w, SetToSeq(DOMAIN w.st.provisionedStorage), f), f)

\* reconcileFinalizers, lines 182 and 195: r.Update stores the metadata
updateFinalizers(w, present, f) ==
    IF Fails(f, "Update", "")
    THEN [Log(w, "Update", "") EXCEPT !.err = "Update failed"]
    ELSE [Log(w, "Update", "") EXCEPT !.meta.finalizer = present]

\* reconcileFinalizers, lines 176-186: w is the call after deleteExternalResources
removeFinalizer(w, f) ==
    IF w.err # "" THEN w ELSE updateFinalizers(w, FALSE, f)

\* reconcileFinalizers without lines 193-198: the finalizer is never added
reconcileFinalizersNeverAdd(w, f) ==
    IF w.meta.deleting /\ w.meta.finalizer
    THEN LET w1 == deleteExternalResources(w, f)
         IN IF w1.err # "" THEN w1
            ELSE IF Fails(f, "Update", "")
                 THEN [Log(w1, "Update", "") EXCEPT !.err = "Update failed"]
                 ELSE [Log(w1, "Update", "") EXCEPT !.meta.finalizer = FALSE]
    ELSE w

\* reconcileFinalizers, lines 169-200
reconcileFinalizers(w, f) ==
    IF w.meta.deleting
    THEN IF w.meta.finalizer THEN removeFinalizer(deleteExternalResources(w, f), f) ELSE w
    ELSE IF ~w.meta.finalizer THEN updateFinalizers(w, TRUE, f) ELSE w

\* RegisterAsset: registers the provisioned bucket in the catalog: [ok, assets, newAssetID]
RegisterAsset(registered, catalogID, d, f) ==
    IF Fails(f, "RegisterAsset", "")
    THEN [ok |-> FALSE, assets |-> registered, newAssetID |-> ""]
    ELSE [ok |-> TRUE, assets |-> registered \cup {d}, newAssetID |-> "new-asset"]

\* lines 154-160 with the error of RegisterAsset returned
recordAssetOrFail(w, d, g) ==
    IF g.ok
    THEN [w |-> [w EXCEPT !.assets = g.assets,
                          !.st.catalogedAssets = PutKey(@, d, g.newAssetID)],
          outcome |-> "done"]
    ELSE [w |-> [w EXCEPT !.err = "RegisterAsset failed"], outcome |-> "error"]

\* checkReadiness, lines 154-160: g is what RegisterAsset returned.
\* [w, outcome], outcome "done" (go on), "error" (return the error) or "retry"
\* (return nil, not ready)
recordAsset(w, d, g) ==
    IF g.ok
    THEN [w |-> [w EXCEPT !.assets = g.assets,
                          !.st.catalogedAssets = PutKey(@, d, g.newAssetID)],
          outcome |-> "done"]
    ELSE [w |-> w, outcome |-> "retry"]

\* checkReadiness, lines 150-160: p is what SetPersistent returned
persistAndRegister(w, c, p, f) ==
    IF ~p.ok
    THEN [w |-> [w EXCEPT !.buckets = p.buckets, !.err = "SetPersistent failed"],
          outcome |-> "error"]
    ELSE recordAsset(Log([w EXCEPT !.buckets = p.buckets], "RegisterAsset", c.dataSetID),
                     c.dataSetID,
                     RegisterAsset(w.assets, c.catalogID, c.dataSetID, f))

\* checkReadiness, lines 138-160: one data context
registerAsset(w, c, f) ==
    IF c.catalogID = "" \/ c.dataSetID \in DOMAIN w.st.catalogedAssets
    THEN [w |-> w, outcome |-> "done"]
    ELSE IF c.dataSetID \notin DOMAIN w.st.provisionedStorage
    THEN [w |-> [w EXCEPT !.err = "No copy has been created for the asset"],
          outcome |-> "error"]
    ELSE persistAndRegister(
           Log(w, "SetPersistent", w.st.provisionedStorage[c.dataSetID].datasetRef), c,
           SetPersistent(w.buckets, w.st.provisionedStorage[c.dataSetID].datasetRef, TRUE, f),
           f)

\* checkReadiness with the loop of lines 137-162 stopping after its first data context
registerRestFirstOnly(r, ctxs, f) == r

\* checkReadiness, lines 137-162: the loop over the data contexts
RECURSIVE registerAssets(_, _, _)
RECURSIVE registerRest(_, _, _)
registerRest(r, ctxs, f) ==
    IF r.outcome # "done" THEN r ELSE registerAssets(r.w, ctxs, f)

registerAssets(w, ctxs, f) ==
    IF ctxs = <<>> THEN [w |-> w, outcome |-> "done"]
    ELSE registerRest(registerAsset(w, Head(ctxs), f), Tail(ctxs), f)

\* checkReadiness with line 164 ahead of the registration loop: the access
\* instructions are copied whatever the loop returns
setReadyInstructionsFirst(r, obs) ==
    IF r.outcome # "done"
    THEN [r.w EXCEPT !.st.dataAccessInstructions = obs.dataAccessInstructions]
    ELSE [r.w EXCEPT !.st = [setReadyCondition(@, "") EXCEPT
                               !.dataAccessInstructions = obs.dataAccessInstructions]]

\* checkReadiness, lines 163-165: r is the outcome of the loop
setReady(r, obs) ==
    IF r.outcome # "done" THEN r.w
    ELSE [r.w EXCEPT !.st = [setReadyCondition(@, "") EXCEPT
                               !.dataAccessInstructions = obs.dataAccessInstructions]]

\* checkReadiness with the test of lines 131-133 ahead of the test of lines 127-130
checkObservedReadyFirst(w, obs, ctxs, f) ==
    IF ~obs.ready
    THEN IF obs.error # "" THEN [w EXCEPT !.st = setErrorCondition(@, "", obs.error)] ELSE w
    ELSE setReady(registerAssets(w, ctxs, f), obs)

\* checkReadiness, lines 126-165: w is the call after the reset of lines 120-125
checkObserved(w, obs, ctxs, f) ==
    IF obs.error # "" THEN [w EXCEPT !.st = setErrorCondition(@, "", obs.error)]
    ELSE IF ~obs.ready THEN w
    ELSE setReady(registerAssets(w, ctxs, f), obs)

\* checkReadiness without resetConditions (line 122)
checkReadinessKeepConditions(w, obs, ctxs, f) ==
    checkObserved([w EXCEPT !.st.dataAccessInstructions = ""], obs, ctxs, f)

\* checkReadiness, lines 120-166
checkReadiness(w, obs, ctxs, f) ==
    checkObserved([w EXCEPT !.st = [resetConditions(@) EXCEPT !.dataAccessInstructions = ""]],
                  obs, ctxs, f)

------------------------------------------------------------------------------
(* The planning run.                                                       *)

\* constructDataInfo with grpcDataCatalog.GetDatasetInfo: the error ("" is nil)
constructDataInfo(c, f) ==
    IF Fails(f, "GetDatasetInfo", c.dataSetID) THEN TransportError
    ELSE IF ~CatalogKnows(c.dataSetID) THEN InvalidAssetID
    ELSE ""

\* lines 299-309 with a break at the first failure
constructRequirementsStopAtFirst(w, ctxs, requirements, f) ==
    LET ok == {n \in 0..Len(ctxs) :
                  \A i \in 1..n : constructDataInfo(ctxs[i], f) = ""}
        n == CHOOSE m \in ok : \A k \in ok : k <= m
        passed == [w EXCEPT !.trace =
                     @ \o [i \in 1..n |-> Event("GetDatasetInfo", ctxs[i].dataSetID)]]
    IN IF n = Len(ctxs)
       THEN [w |-> passed, requirements |-> requirements \o ctxs]
       ELSE [w |-> [Log(passed, "GetDatasetInfo", ctxs[n + 1].dataSetID) EXCEPT
                      !.st = AnalyzeError(@, ctxs[n + 1].dataSetID,
                                          constructDataInfo(ctxs[n + 1], f))],
             requirements |-> requirements \o SubSeq(ctxs, 1, n)]

\* reconcile, lines 299-309: [w, requirements]
RECURSIVE constructRequirements(_, _, _, _)
constructRequirements(w, ctxs, requirements, f) ==
    IF ctxs = <<>> THEN [w |-> w, requirements |-> requirements]
    ELSE LET c == Head(ctxs)
             err == constructDataInfo(c, f)
             w1 == Log(w, "GetDatasetInfo", c.dataSetID)
         IN IF err # ""
            THEN constructRequirements([w1 EXCEPT !.st = AnalyzeError(@, c.dataSetID, err)],
                                       Tail(ctxs), requirements, f)
            ELSE constructRequirements(w1, Tail(ctxs), Append(requirements, c), f)

\* a data store: where the data is, in which format, and the path of its credentials
DataStore(connection, format, credentials) ==
    [connection |-> connection, format |-> format, credentials |-> credentials]

NoDataStore == DataStore("", "", "")

\* the data store the catalog gives for the dataset
CatalogSource(d) == DataStore(d, "table", "/v1/secret/" \o d)

\* the data store of the copy of a dataset: the bucket allocated for it
CopyDestination(ref) == DataStore(ref, "parquet", "credentials-theshire")

\* the source of the read of a dataset, left at the catalog source
readSourceCatalog(d, ref, copied) == CatalogSource(d)

\* the source of the read of a dataset: the destination of its copy when there is one
readSource(d, ref, copied) == IF copied THEN CopyDestination(ref) ELSE CatalogSource(d)

\* a module instance: one step of the plan
ModuleInstance(capability, d, source, destination) ==
    [module |-> IF capability = "copy" THEN "copy-db2-parquet" ELSE "module-read-parquet",
     capability |-> capability,
     assetID |-> d,
     args |-> [source |-> source, destination |-> destination],
     clusterName |-> "thegreendragon"]

\* ModuleManager.SelectModuleInstances for one data context:
\* [err, instances, buckets, provisioned, trace]; provisioned is what the call adds to
\* moduleManager.ProvisionedStorage: dataset id -> bucket
SelectModuleInstances(bk, c, generation, f) ==
    LET d == c.dataSetID
        ref == BucketName(d, generation)
        none == [err |-> "", instances |-> <<>>, buckets |-> bk, provisioned |-> EmptyMap,
                 trace |-> <<Event("GetPoliciesDecisions", d)>>]
    IN IF Fails(f, "GetPoliciesDecisions", d) THEN [none EXCEPT !.err = TransportError]
       ELSE IF ReadDenied(d) THEN [none EXCEPT !.err = ReadAccessDenied]
       ELSE IF CopyRequired(d)
       THEN LET r == CreateDataset(bk, ref, f)
                copied == [none EXCEPT !.trace = Append(@, Event("CreateDataset", ref)),
                                       !.buckets = r.buckets]
            IN IF ~r.ok THEN [copied EXCEPT !.err = TransportError]
               ELSE IF c.catalogID # ""
               THEN [copied EXCEPT !.provisioned = PutKey(EmptyMap, d, ref),
                                   !.instances =
                                       <<ModuleInstance("copy", d, CatalogSource(d),
                                                        CopyDestination(ref))>>]
               ELSE [copied EXCEPT !.provisioned = PutKey(EmptyMap, d, ref),
                                   !.instances =
                                       <<ModuleInstance("copy", d, CatalogSource(d),
                                                        CopyDestination(ref)),
                                         ModuleInstance("read", d, readSource(d, ref, TRUE),
                                                        NoDataStore)>>]
       ELSE IF ~ReadModuleFound(d) THEN [none EXCEPT !.err = ModuleNotFound]
       ELSE [none EXCEPT !.instances =
                             <<ModuleInstance("read", d, readSource(d, ref, FALSE),
                                              NoDataStore)>>]

\* reconcile, lines 331-339: [w, instances, provisioned]
\* (provisioned is moduleManager.ProvisionedStorage)
RECURSIVE selectInstances(_, _, _, _, _)
RECURSIVE selectRest(_, _, _, _, _, _, _)
\* reconcile, lines 333-338: r is what SelectModuleInstances returned for c
selectRest(w, c, r, requirements, instances, provisioned, f) ==
    IF r.err # ""
    THEN selectInstances([w EXCEPT !.trace = @ \o r.trace, !.buckets = r.buckets,
                                   !.st = AnalyzeError(@, c.dataSetID, r.err)],
                         requirements, instances, Merge(provisioned, r.provisioned), f)
    ELSE selectInstances([w EXCEPT !.trace = @ \o r.trace, !.buckets = r.buckets],
                         requirements, instances \o r.instances,
                         Merge(provisioned, r.provisioned), f)

selectInstances(w, requirements, instances, provisioned, f) ==
    IF requirements = <<>>
    THEN [w |-> w, instances |-> instances, provisioned |-> provisioned]
    ELSE selectRest(w, Head(requirements),
                    SelectModuleInstances(w.buckets, Head(requirements), w.meta.generation, f),
                    Tail(requirements), instances, provisioned, f)

\* reconcile, lines 346-351: the buckets of the status the planner did not ask for again
RECURSIVE cleanBuckets(_, _, _, _)
cleanBuckets(w, keys, provisioned, f) ==
    IF keys = <<>> THEN w
    ELSE LET d == Head(keys)
             ref == w.st.provisionedStorage[d].datasetRef
         IN IF d \in DOMAIN provisioned THEN cleanBuckets(w, Tail(keys), provisioned, f)
            ELSE cleanBuckets(
                   [Log(Log(w, "DeleteDataset", ref), "removeEntry", d) EXCEPT
                       !.buckets = DeleteDataset(w.buckets, ref, f).buckets,
                       !.st.provisionedStorage = RemoveKey(@, d)],
                   Tail(keys), provisioned, f)

\* lines 353-360 left out
addNoBuckets(st, provisioned) == st

\* reconcile, lines 353-360
addBuckets(st, provisioned) ==
    [st EXCEPT !.provisionedStorage =
        [d \in DOMAIN @ \cup DOMAIN provisioned |->
            IF d \in DOMAIN provisioned
            THEN [datasetRef |-> provisioned[d], secretRef |-> "credentials-theshire"]
            ELSE @[d]]]

\* reconcile, lines 361-379: the range over the map stops at the first bucket that is
\* not ready, whichever the iteration visits first (first, when it is one of them)
checkBuckets(w, first, f) ==
    LET ps == w.st.provisionedStorage
        res(d) == GetDatasetStatus(w.buckets, ps[d].datasetRef, f)
        notReady == {d \in DOMAIN ps : ~res(d).ok \/ ~res(d).provisioned}
        d0 == IF first \in notReady THEN first ELSE CHOOSE d \in notReady : TRUE
    IN IF notReady = {} THEN [ready |-> TRUE, allocErr |-> ""]
       ELSE [ready |-> FALSE, allocErr |-> IF res(d0).ok THEN res(d0).errorMsg ELSE ""]

\* GenerateBlueprints: the steps of the plan, the read steps of one module merged
GenerateBlueprints(instances) ==
    LET copies == SelectSeq(instances, LAMBDA i : i.capability = "copy")
        reads == SelectSeq(instances, LAMBDA i : i.capability = "read")
        step(i) == [template |-> i.module, capability |-> i.capability,
                    assets |-> <<i.assetID>>, arguments |-> <<i.args>>,
                    clusterName |-> i.clusterName]
    IN [k \in 1..Len(copies) |-> step(copies[k])]
       \o (IF reads = <<>> THEN <<>>
           ELSE <<[step(reads[1]) EXCEPT
                     !.assets = [k \in 1..Len(reads) |-> reads[k].assetID],
                     !.arguments = [k \in 1..Len(reads) |-> reads[k].args]]>>)

\* app.EndpointSpec
EndpointSpec(hostname, port, scheme) ==
    [Hostname |-> hostname, Port |-> port, Scheme |-> scheme]

\* the namespace the blueprints run in
BlueprintNamespace == "fybrik-blueprints"

\* lines 249-251: the api endpoint of every read-capability block of the module; the
\* read module of the registry declares two
ReadEndpoints(moduleName) ==
    IF moduleName = "module-read-parquet"
    THEN <<EndpointSpec("", 80, "grpc"), EndpointSpec("", 8080, "http")>>
    ELSE <<>>

\* utils.GetReleaseName: the release of a step of the application
GetReleaseName(name, namespace, step) == name \o "-" \o namespace \o "-" \o step.template

\* utils.GenerateModuleEndpointFQDN
GenerateModuleEndpointFQDN(releaseName, namespace) == releaseName \o "." \o namespace

\* lines 250-260 stopping at the first block
setEndpointsFirstBlock(endpoints, caps, fqdn, step) ==
    IF caps = <<>> THEN endpoints
    ELSE Merge(endpoints,
               [a \in Range(step.assets) |->
                   EndpointSpec(fqdn, Head(caps).Port, Head(caps).Scheme)])

\* setReadModulesEndpoints, lines 250-260: for each read-capability block in turn the
\* assets of the step get its endpoint
RECURSIVE setEndpoints(_, _, _, _)
setEndpoints(endpoints, caps, fqdn, step) ==
    IF caps = <<>> THEN endpoints
    ELSE setEndpoints(Merge(endpoints,
                            [a \in Range(step.assets) |->
                                EndpointSpec(fqdn, Head(caps).Port, Head(caps).Scheme)]),
                      Tail(caps), fqdn, step)

\* setReadModulesEndpoints, lines 238-263: the steps of a blueprint
RECURSIVE readEndpoints(_, _)
readEndpoints(endpoints, steps) ==
    IF steps = <<>> THEN endpoints
    ELSE IF Head(steps).capability # "read" THEN readEndpoints(endpoints, Tail(steps))
    ELSE readEndpoints(
             setEndpoints(endpoints, ReadEndpoints(Head(steps).template),
                          GenerateModuleEndpointFQDN(
                              GetReleaseName("notebook", "default", Head(steps)),
                              BlueprintNamespace),
                          Head(steps)),
             Tail(steps))

\* setReadModulesEndpoints: the endpoints of the first blueprint that has read steps;
\* every module of the plan runs in one cluster, so the plan has one blueprint
setReadModulesEndpoints(st, blueprints) ==
    [st EXCEPT !.readEndpointsMap = readEndpoints(@, blueprints)]

\* lines 277-283 without resetConditions
clearStatusKeepConditions(st) ==
    [st EXCEPT !.dataAccessInstructions = "", !.readEndpointsMap = EmptyMap]

\* reconcile, lines 277-283
clearStatus(st) ==
    [resetConditions(st) EXCEPT !.dataAccessInstructions = "", !.readEndpointsMap = EmptyMap]

\* reconcile, lines 388-397: r is what CreateOrUpdateResource returned
recordGenerated(w, r, resourceRef) ==
    IF r.err = InvalidClusterConfiguration
    THEN [w EXCEPT !.st = setErrorCondition(@, "", InvalidClusterConfiguration)]
    ELSE IF r.err # "" THEN [w EXCEPT !.err = r.err]
    ELSE [w EXCEPT !.plotter = r.plotter, !.written = r.written,
                   !.st.generated = resourceRef]

\* reconcile, lines 384-397: the plotter is written
generatePlotter(w, blueprints, f) ==
    recordGenerated(
        [Log(w, "CreateOrUpdateResource", "") EXCEPT
            !.st = setReadModulesEndpoints(@, blueprints)],
        CreateOrUpdateResource(w.plotter,
                               [name |-> "notebook", namespace |-> "default", kind |-> "",
                                appVersion |-> w.meta.generation],
                               blueprints, f),
        CreateResourceReference([name |-> "notebook", namespace |-> "default", kind |-> "",
                                 appVersion |-> w.meta.generation]))

\* lines 380-397 without the return of lines 380-382
generateAlways(w, chk, instances, f) ==
    generatePlotter(w, GenerateBlueprints(instances), f)

\* reconcile, lines 380-397: chk is the outcome of the check of the buckets
generateIfReady(w, chk, instances, f) ==
    IF ~chk.ready THEN [w EXCEPT !.result = RequeueStorage, !.err = chk.allocErr]
    ELSE generatePlotter(w, GenerateBlueprints(instances), f)

\* reconcile, lines 361-397: w is the call after the buckets have been recorded
checkAndGenerate(w, instances, first, f) ==
    generateIfReady(IF DOMAIN w.st.provisionedStorage = {} THEN w
                    ELSE Log(w, "GetDatasetStatus", ""),
                    checkBuckets(w, first, f), instances, f)

\* lines 344-398 with the clean-up of lines 346-351 moved after the plotter
emitPlanPlotterFirst(w, instances, provisioned, first, f) ==
    LET w1 == checkAndGenerate([w EXCEPT !.st = addBuckets(@, provisioned)],
                               instances, first, f)
    IN IF Event("CreateOrUpdateResource", "") \notin Range(w1.trace) \/ w1.err # "" THEN w1
       ELSE cleanBuckets(w1, SetToSeq(DOMAIN w1.st.provisionedStorage), provisioned, f)

\* reconcile, lines 344-398: after the modules have been selected
emitPlan(w, instances, provisioned, first, f) ==
    checkAndGenerate(
        [cleanBuckets(w, SetToSeq(DOMAIN w.st.provisionedStorage), provisioned, f) EXCEPT
            !.st = addBuckets(@, provisioned)],
        instances, first, f)

\* reconcile, lines 286-291: w is the call after deleteExternalResources
setReadyNoData(w) ==
    IF w.err # "" THEN w ELSE [w EXCEPT !.st = setReadyCondition(@, "")]

\* reconcile, lines 340-398: p is the outcome of the selection of the modules
planStorage(p, first, f) ==
    IF errorOrDeny(p.w.st) THEN p.w
    ELSE emitPlan(p.w, p.instances, p.provisioned, first, f)

\* reconcile, lines 310-398: p is the outcome of the loop over the data contexts
planModules(p, first, f) ==
    IF errorOrDeny(p.w.st) THEN p.w
    ELSE IF Fails(f, "GetAllModules", "") THEN [p.w EXCEPT !.err = TransportError]
    ELSE planStorage(selectInstances(p.w, p.requirements, <<>>, EmptyMap, f), first, f)

\* reconcile, lines 285-398: w is the call after the status has been cleared
planData(w, ctxs, first, f) ==
    IF Len(ctxs) = 0 THEN setReadyNoData(deleteExternalResources(w, f))
    ELSE IF Fails(f, "GetClusters", "") THEN [w EXCEPT !.err = TransportError]
    ELSE planModules(constructRequirements(w, ctxs, <<>>, f), first, f)

\* reconcile: the planning run
reconcile(w, ctxs, first, f) ==
    planData([w EXCEPT !.st = clearStatus(@)], ctxs, first, f)

------------------------------------------------------------------------------
(* Reconcile.                                                              *)

\* the object is removed by the API server once it is deleted with no finalizer left
Exists(m) == ~(m.deleting /\ ~m.finalizer)

\* the record of a Reconcile call: the fault injected, the status it read
\* (observedStatus), the status it held when it returned (applicationContext.Status),
\* its trace, the error and the result it returned
NoCall ==
    [op |-> "none", mode |-> "", fault |-> <<"", "">>, err |-> "", requeueAfter |-> 0,
     observed |-> EmptyStatus, st |-> EmptyStatus, trace |-> <<>>, written |-> FALSE]

\* lines 76-77 without the comparison of the versions
reconcileRequiredIgnoreVersion(pl, observedStatus, appVersion) ==
    ~ResourceExists(pl, observedStatus.generated)

\* Reconcile, lines 76-77: plan (TRUE) or read the plotter's state (FALSE)
reconcileRequired(pl, observedStatus, appVersion) ==
    LET generationComplete ==
            ResourceExists(pl, observedStatus.generated)
            /\ observedStatus.generated.appVersion = appVersion
    IN (~generationComplete) \/ (observedStatus.observedGeneration # appVersion)

\* line 87 with the version one ahead
setObservedGenerationAhead(st, appVersion) ==
    [st EXCEPT !.observedGeneration = appVersion + 1]

\* Reconcile, line 87
setObservedGeneration(st, appVersion) == [st EXCEPT !.observedGeneration = appVersion]

\* lines 98-113 without the test of line 110: the result is always empty
updateStatusNoRequeue(w, observedStatus, f) ==
    IF w.st # observedStatus /\ ~w.meta.deleting
    THEN IF Fails(f, "StatusUpdate", "")
         THEN [w |-> [Log(w, "StatusUpdate", "") EXCEPT !.err = TransportError],
               stored |-> observedStatus]
         ELSE [w |-> [Log(w, "StatusUpdate", "") EXCEPT !.result = 0], stored |-> w.st]
    ELSE [w |-> [w EXCEPT !.result = 0], stored |-> observedStatus]

\* lines 98-113 without the comparison of line 99: the status is written every time
updateStatusAlways(w, observedStatus, f) ==
    IF ~w.meta.deleting
    THEN IF Fails(f, "StatusUpdate", "")
         THEN [w |-> [Log(w, "StatusUpdate", "") EXCEPT !.err = TransportError],
               stored |-> observedStatus]
         ELSE [w |-> [Log(w, "StatusUpdate", "") EXCEPT
                        !.result = IF ~inFinalState(w.st) THEN RequeueNotFinal ELSE 0],
               stored |-> w.st]
    ELSE [w |-> [w EXCEPT !.result = IF ~inFinalState(w.st) THEN RequeueNotFinal ELSE 0],
          stored |-> observedStatus]

\* Reconcile, lines 98-113: the status update and the result.
\* [w, stored]: stored is the status the API server holds afterwards
updateStatus(w, observedStatus, f) ==
    IF w.st # observedStatus /\ ~w.meta.deleting
    THEN IF Fails(f, "StatusUpdate", "")
         THEN [w |-> [Log(w, "StatusUpdate", "") EXCEPT !.err = TransportError],
               stored |-> observedStatus]
         ELSE [w |-> [Log(w, "StatusUpdate", "") EXCEPT
                        !.result = IF ~inFinalState(w.st) THEN RequeueNotFinal ELSE 0],
               stored |-> w.st]
    ELSE [w |-> [w EXCEPT !.result = IF ~inFinalState(w.st) THEN RequeueNotFinal ELSE 0],
          stored |-> observedStatus]

\* the outcome of a Reconcile call: [w, stored, mode]
Returned(u, mode) == [w |-> u.w, stored |-> u.stored, mode |-> mode]

\* lines 78-85 without the status update of lines 81-84
planFailedNoWrite(w, observedStatus, f) ==
    [w |-> w, stored |-> observedStatus, mode |-> "plan"]

\* Reconcile, lines 78-85: reconcile failed; the status is written, an update error is
\* ignored
planFailed(w, observedStatus, f) ==
    IF w.st # observedStatus
    THEN [w |-> Log(w, "StatusUpdate", ""),
          stored |-> IF Fails(f, "StatusUpdate", "") THEN observedStatus ELSE w.st,
          mode |-> "plan"]
    ELSE [w |-> w, stored |-> observedStatus, mode |-> "plan"]

\* Reconcile, lines 78-113: w is the call after reconcile
planned(w, observedStatus, appVersion, f) ==
    IF w.err # "" THEN planFailed(w, observedStatus, f)
    ELSE Returned(updateStatus([w EXCEPT !.result = 0,
                                         !.st = setObservedGeneration(@, appVersion)],
                               observedStatus, f),
                  "plan")

\* Reconcile, lines 94-113: w is the call after checkReadiness
checked(w, observedStatus, f) ==
    IF w.err # "" THEN [w |-> w, stored |-> observedStatus, mode |-> "observe"]
    ELSE Returned(updateStatus(w, observedStatus, f), "observe")

\* Reconcile, lines 89-113: r is what GetResourceStatus returned
observed(w, r, observedStatus, ctxs, f) ==
    IF ~r.ok
    THEN [w |-> [w EXCEPT !.err = TransportError], stored |-> observedStatus,
          mode |-> "observe"]
    ELSE checked(checkReadiness(w, r.state, ctxs, f), observedStatus, f)

\* lines 66-113 without the return of lines 66-69
reconcileOrObserveWhileDeleting(w, observedStatus, ctxs, first, f) ==
    IF w.err # "" THEN [w |-> w, stored |-> observedStatus, mode |-> "finalizers"]
    ELSE IF reconcileRequired(w.plotter, observedStatus, w.meta.generation)
    THEN planned(reconcile(w, ctxs, first, f), observedStatus, w.meta.generation, f)
    ELSE observed(Log(w, "GetResourceStatus", ""),
                  GetResourceStatus(w.plotter, observedStatus.generated, f),
                  observedStatus, ctxs, f)

\* Reconcile, lines 66-113: w is the call after reconcileFinalizers
reconcileOrObserve(w, observedStatus, ctxs, first, f) ==
    IF w.err # "" THEN [w |-> w, stored |-> observedStatus, mode |-> "finalizers"]
    ELSE IF w.meta.deleting THEN [w |-> w, stored |-> observedStatus, mode |-> "deleting"]
    ELSE IF reconcileRequired(w.plotter, observedStatus, w.meta.generation)
    THEN planned(reconcile(w, ctxs, first, f), observedStatus, w.meta.generation, f)
    ELSE observed(Log(w, "GetResourceStatus", ""),
                  GetResourceStatus(w.plotter, observedStatus.generated, f),
                  observedStatus, ctxs, f)

\* Reconcile, lines 60-114, for an object that exists: [w, stored, mode]
ReconcileCall(w0, observedStatus, ctxs, first, f) ==
    reconcileOrObserve(reconcileFinalizers(w0, f), observedStatus, ctxs, first, f)

\* the start of a Reconcile call on the stored object
Start ==
    [meta |-> meta, st |-> status, plotter |-> plotter, buckets |-> buckets,
     assets |-> assets, trace |-> <<>>, err |-> "", result |-> 0, written |-> FALSE]

\* a fault that hits no call of this Reconcile call, and an iteration order that makes
\* no difference to it, give the same step as no fault and the other order:
\* r is the outcome of the call, r0 its outcome with no fault, r1 its outcome with the
\* other iteration order
Relevant(first, f, r, r0, r1) ==
    /\ f # NoFault => (faults < MaxFaults /\ r # r0)
    /\ first # CopyDataset => r # r1

\* Reconcile returns r: the API server holds what the call has written
Returns(first, f, r, r0, r1) ==
    /\ Relevant(first, f, r, r0, r1)
    /\ meta' = r.w.meta
    /\ status' = r.stored
    /\ plotter' = r.w.plotter
    /\ buckets' = r.w.buckets
    /\ assets' = r.w.assets
    /\ faults' = IF f = NoFault THEN faults ELSE faults + 1
    /\ last' = [op |-> "Reconcile", mode |-> r.mode, fault |-> f, err |-> r.w.err,
                requeueAfter |-> r.w.result, observed |-> status, st |-> r.w.st,
                trace |-> r.w.trace, written |-> r.w.written]
    /\ UNCHANGED <<data, libVars>>

Reconcile(first, f) ==
    IF ~Exists(meta)
    THEN /\ f = NoFault
         /\ first = CopyDataset
         /\ last' = [NoCall EXCEPT !.op = "Reconcile", !.mode = "notfound",
                                   !.observed = status, !.st = status]
         /\ UNCHANGED <<meta, data, status, plotter, buckets, assets, faults>>
         /\ UNCHANGED libVars
    ELSE Returns(first, f,
                 ReconcileCall(Start, status, data, first, f),
                 ReconcileCall(Start, status, data, first, NoFault),
                 ReconcileCall(Start, status, data, CopyDataset, f))

------------------------------------------------------------------------------
(* The environment: the data user, the plotter controller, the storage     *)
(* backend.                                                                *)

\* the user changes spec.data: a new generation
SpecChange(ctxs) ==
    /\ Exists(meta)
    /\ ~meta.deleting
    /\ meta.generation < MaxGen
    /\ ctxs # data
    /\ meta' = [meta EXCEPT !.generation = @ + 1]
    /\ data' = ctxs
    /\ last' = NoCall
    /\ UNCHANGED <<status, plotter, buckets, assets, faults>>
    /\ UNCHANGED libVars

\* the user deletes the application: the deletion timestamp is set
DeleteApplication ==
    /\ Exists(meta)
    /\ ~meta.deleting
    /\ meta' = [meta EXCEPT !.deleting = TRUE]
    /\ last' = NoCall
    /\ UNCHANGED <<data, status, plotter, buckets, assets, faults>>
    /\ UNCHANGED libVars

ObservedStates ==
    {EmptyObservedState,
     [ready |-> TRUE, error |-> "", dataAccessInstructions |-> "instructions"],
     [ready |-> FALSE, error |-> OrchestrationError, dataAccessInstructions |-> ""],
     [ready |-> TRUE, error |-> OrchestrationError,
      dataAccessInstructions |-> "instructions"]}

\* the plotter controller reports on the blueprints
PlotterStatus(obs) ==
    /\ plotter.exists
    /\ obs # plotter.observedState
    /\ plotter' = [plotter EXCEPT !.observedState = obs]
    /\ last' = NoCall
    /\ UNCHANGED <<meta, data, status, buckets, assets, faults>>
    /\ UNCHANGED libVars

\* the storage backend finishes the provisioning of a bucket, or fails
DatasetStatus(ref, outcome) ==
    /\ buckets[ref].provision = "pending"
    /\ buckets' = [buckets EXCEPT ![ref].provision = outcome]
    /\ last' = NoCall
    /\ UNCHANGED <<meta, data, status, plotter, assets, faults>>
    /\ UNCHANGED libVars

Init ==
    /\ meta = [generation |-> 1, deleting |-> FALSE, finalizer |-> FALSE]
    /\ data \in DataChoices
    /\ status = EmptyStatus
    /\ plotter = NoPlotter
    /\ buckets = [b \in Buckets |-> AbsentBucket]
    /\ assets = {}
    /\ faults = 0
    /\ last = NoCall
    /\ LibIdle

Next ==
    \/ \E first \in {CopyDataset, IngestDataset}, f \in Faults : Reconcile(first, f)
    \/ \E ctxs \in DataChoices : SpecChange(ctxs)
    \/ DeleteApplication
    \/ \E obs \in ObservedStates : PlotterStatus(obs)
    \/ \E ref \in Buckets, outcome \in {"ok", "failed"} : DatasetStatus(ref, outcome)

Spec == Init /\ [][Next]_vars

\* the teardown: applications with copies, which the user deletes at some time and
\* does not change before
InitTeardown ==
    /\ meta = [generation |-> 1, deleting |-> FALSE, finalizer |-> FALSE]
    /\ data \in {<<DataContext(CopyDataset)>>,
                 <<DataContext(CopyDataset), DataContext(IngestDataset)>>}
    /\ status = EmptyStatus
    /\ plotter = NoPlotter
    /\ buckets = [b \in Buckets |-> AbsentBucket]
    /\ assets = {}
    /\ faults = 0
    /\ last = NoCall
    /\ LibIdle

NextTeardown ==
    \/ \E first \in {CopyDataset, IngestDataset}, f \in Faults : Reconcile(first, f)
    \/ DeleteApplication
    \/ \E obs \in ObservedStates : PlotterStatus(obs)
    \/ \E ref \in Buckets, outcome \in {"ok", "failed"} : DatasetStatus(ref, outcome)

\* a Reconcile call in which no external call fails
Retry == \E first \in {CopyDataset, IngestDataset} : Reconcile(first, NoFault)

\* what a Reconcile call in which no external call fails leaves behind
RetryLeaves(r) ==
    <<r.w.meta, r.stored, r.w.plotter, r.w.buckets, r.w.assets,
      [op |-> "Reconcile", mode |-> r.mode, fault |-> NoFault, err |-> r.w.err,
       requeueAfter |-> r.w.result, observed |-> status, st |-> r.w.st,
       trace |-> r.w.trace, written |-> r.w.written]>>

\* ENABLED <<Retry>>_vars: a Reconcile call in which no external call fails changes
\* the state
RetryEnabled ==
    IF ~Exists(meta)
    THEN last # [NoCall EXCEPT !.op = "Reconcile", !.mode = "notfound",
                               !.observed = status, !.st = status]
    ELSE \E first \in {CopyDataset, IngestDataset} :
            RetryLeaves(ReconcileCall(Start, status, data, first, NoFault))
              # <<meta, status, plotter, buckets, assets, last>>

\* a Reconcile call that returns an error is made again by the controller runtime, and
\* a call in which no external call fails is always possible: WF_vars(Retry), with
\* ENABLED <<Retry>>_vars written out
SpecTeardown ==
    /\ InitTeardown
    /\ [][NextTeardown]_vars
    /\ ([]<>~RetryEnabled \/ []<><<Retry>>_vars)

------------------------------------------------------------------------------
(* ProvisionImpl on its own.                                               *)

InitProvision ==
    /\ meta = [generation |-> 1, deleting |-> FALSE, finalizer |-> FALSE]
    /\ data = <<>>
    /\ status = EmptyStatus
    /\ plotter = NoPlotter
    /\ buckets = [b \in Buckets |-> AbsentBucket]
    /\ assets = {}
    /\ faults = 0
    /\ last = NoCall
    /\ cluster = [ref \in DatasetRefs |-> NoDataset]
    /\ pcall = NoProvisionCall
    /\ registry = ModuleMap({})
    /\ sel = NoSelector
    /\ scall = NoSelectorCall
    /\ plotters = <<>>
    /\ gcall = NoPlotterCall

NextProvision ==
    \/ \E ref \in DatasetRefs, bucket \in ProvisionedBuckets, owner \in Owners,
          f \in ClientFaults : CallCreateDataset(ref, bucket, owner, f)
    \/ \E ref \in DatasetRefs, f \in ClientFaults : CallDeleteDataset(ref, f)
    \/ \E ref \in DatasetRefs, persistent \in BOOLEAN, f \in ClientFaults :
          CallSetPersistent(ref, persistent, f)
    \/ \E ref \in DatasetRefs, f \in ClientFaults : CallGetDatasetStatus(ref, f)
    \/ \E ref \in DatasetRefs, report \in ProvisionReports : ProvisionReport(ref, report)

SpecProvision == InitProvision /\ [][NextProvision]_vars

------------------------------------------------------------------------------
(* The Selector on its own.                                                *)

InitSelector ==
    /\ meta = [generation |-> 1, deleting |-> FALSE, finalizer |-> FALSE]
    /\ data = <<>>
    /\ status = EmptyStatus
    /\ plotter = NoPlotter
    /\ buckets = [b \in Buckets |-> AbsentBucket]
    /\ assets = {}
    /\ faults = 0
    /\ last = NoCall
    /\ cluster = [ref \in DatasetRefs |-> NoDataset]
    /\ pcall = NoProvisionCall
    /\ registry \in Registries
    /\ sel = NoSelector
    /\ scall = NoSelectorCall
    /\ plotters = <<>>
    /\ gcall = NoPlotterCall

NextSelector ==
    \/ \E m \in Selectors : NewSelector(m)
    \/ \E order \in Orders(DOMAIN registry) : CallSelectModule(order)
    \/ \E geography \in Regions, clusters \in ClusterLists :
          CallSelectCluster(geography, clusters)
    \/ \E actions \in RequiredActions :
          CallAddModuleInstances(ModuleArguments(actions), DataInfo(CopyDataset),
                                 "thegreendragon")

SpecSelector == InitSelector /\ [][NextSelector]_vars

InitPlotters ==
    /\ meta = [generation |-> 1, deleting |-> FALSE, finalizer |-> FALSE]
    /\ data = <<>>
    /\ status = EmptyStatus
    /\ plotter = NoPlotter
    /\ buckets = [b \in Buckets |-> AbsentBucket]
    /\ assets = {}
    /\ faults = 0
    /\ last = NoCall
    /\ cluster = [ref \in DatasetRefs |-> NoDataset]
    /\ pcall = NoProvisionCall
    /\ registry = ModuleMap({})
    /\ sel = NoSelector
    /\ scall = NoSelectorCall
    /\ plotters = [name \in PlotterNames |-> NoPlotter]
    /\ gcall = NoPlotterCall

NextPlotters ==
    \/ \E owner \in Applications, blueprintPerClusterMap \in BlueprintMaps :
          CallCreateOrUpdateResource(owner, CreateResourceReference(owner),
                                     blueprintPerClusterMap)
    \/ \E owner \in Applications : CallDeleteResource(owner, CreateResourceReference(owner))

SpecPlotters == InitPlotters /\ [][NextPlotters]_vars

------------------------------------------------------------------------------
(* Properties.  They read the record of the last Reconcile call (last) and  *)
(* the stored objects.                                                     *)

Called == last.op = "Reconcile"

Calls == Range(last.trace)

\* the dataset ids of spec.data
DataIDs == {data[i].dataSetID : i \in DOMAIN data}

Messages(st) == Range(getErrorMessages(st))

\* the position of the plotter write in the trace of the last call, 0 if there is none
PlotterCallAt ==
    LET at == {i \in DOMAIN last.trace : last.trace[i] = Event("CreateOrUpdateResource", "")}
    IN IF at = {} THEN 0 ELSE CHOOSE i \in at : TRUE

\* the plotter holds a copy step for d
PlanHasCopy(pl, d) ==
    /\ pl.exists
    /\ \E k \in DOMAIN pl.blueprints :
          /\ pl.blueprints[k].capability = "copy"
          /\ d \in Range(pl.blueprints[k].assets)

\* C1: when the policy manager answers deny for the read of a dataset D of spec.data,
\* the call ends with the Deny condition true and the message ReadAccessDenied for D,
\* it has not created or updated a plotter, it returns an empty result, and when it
\* returns no error the stored status carries the Deny condition.
C1DenyOnRead ==
    \A d \in DataSets :
        (/\ Called
         /\ ReadDenied(d)
         /\ Event("GetPoliciesDecisions", d) \in Calls
         /\ last.fault[1] # "GetPoliciesDecisions")
        => /\ last.st.deny.status
           /\ <<d, ReadAccessDenied>> \in Range(last.st.deny.message)
           /\ ~last.written
           /\ PlotterCallAt = 0
           /\ last.requeueAfter = 0
           /\ last.err = "" => (status.deny.status /\ ~status.ready)

\* a Reconcile call in which the policy manager denied the read of a dataset that
\* follows a dataset with a copy
C1Witness ==
    /\ Called
    /\ last.err = ""
    /\ Event("GetPoliciesDecisions", DenyDataset) \in Calls
    /\ Event("CreateDataset", BucketName(CopyDataset, 1)) \in Calls
    /\ status.deny.status

\* C2: Deny and Ready are never both true, in the stored status and in the status a
\* Reconcile call holds when it returns.
C2DenyExcludesReady ==
    /\ ~(status.deny.status /\ status.ready)
    /\ ~(last.st.deny.status /\ last.st.ready)

\* a Reconcile call that read a status with Deny and left one with Ready
C2Witness ==
    /\ Called
    /\ last.observed.deny.status
    /\ status.ready
    /\ ~status.deny.status

\* what the catalog and the planner answer for d in the last call ("" is success)
CatalogFailure(d) ==
    IF last.fault[1] = "GetDatasetInfo" THEN TransportError
    ELSE IF ~CatalogKnows(d) THEN InvalidAssetID
    ELSE ""

PlannerFailure(d) ==
    IF last.fault[1] = "GetPoliciesDecisions" THEN TransportError
    ELSE IF ReadDenied(d) THEN ReadAccessDenied
    ELSE IF ~CopyRequired(d) /\ ~ReadModuleFound(d) THEN ModuleNotFound
    ELSE ""

\* C3: a planning run that starts a phase (the catalog lookups, the module selection)
\* runs it for every dataset of spec.data, every dataset that fails has its reason in
\* the conditions, and a run in which a dataset failed has made no plotter
\* create/update.
C3EveryDatasetEvaluated ==
    (Called /\ last.mode = "plan")
    => /\ (\E d \in DataIDs : Event("GetDatasetInfo", d) \in Calls)
          => \A d \in DataIDs :
                /\ Event("GetDatasetInfo", d) \in Calls
                /\ CatalogFailure(d) # "" => <<d, CatalogFailure(d)>> \in Messages(last.st)
       /\ (\E d \in DataIDs : Event("GetPoliciesDecisions", d) \in Calls)
          => \A d \in DataIDs :
                /\ Event("GetPoliciesDecisions", d) \in Calls
                /\ PlannerFailure(d) # "" => <<d, PlannerFailure(d)>> \in Messages(last.st)
       /\ (\E m \in Messages(last.st) : m[1] \in DataIDs)
          => (~last.written /\ PlotterCallAt = 0)

\* a planning run in which the first dataset failed and the second one was still
\* evaluated, and one in which both failed
C3Witness ==
    /\ Called
    /\ last.mode = "plan"
    /\ \/ /\ <<UnknownDataset, InvalidAssetID>> \in Messages(last.st)
          /\ Event("GetDatasetInfo", AllowDataset) \in Calls
       \/ /\ <<DenyDataset, ReadAccessDenied>> \in Messages(last.st)
          /\ <<NoReadDataset, ModuleNotFound>> \in Messages(last.st)

\* C4, as stated: after a Reconcile call the status has an entry for D exactly when the
\* generated plotter holds a copy step for D.
C4EntryIffCopyStep ==
    Called =>
        \A d \in DataSets :
            d \in DOMAIN status.provisionedStorage
            <=> (status.generated # NilRef /\ PlanHasCopy(plotter, d))

\* C4, amended: after a Reconcile call that returned no error and whose planning run
\* got the plotter created or updated (CreateOrUpdateResource returned no error), the
\* status has an entry for D exactly when that plotter holds a copy step for D.
C4EntryIffCopyStepAfterPlan ==
    (/\ Called
     /\ last.mode = "plan"
     /\ last.err = ""
     /\ PlotterCallAt > 0
     /\ last.fault[1] # "CreateOrUpdateResource")
    => \A d \in DataSets :
          d \in DOMAIN status.provisionedStorage
          <=> (status.generated # NilRef /\ PlanHasCopy(plotter, d))

\* a plan with a copy step for one dataset, made by a run that dropped the entry of
\* another
C4Witness ==
    /\ Called
    /\ last.mode = "plan"
    /\ last.err = ""
    /\ PlotterCallAt > 0
    /\ PlanHasCopy(plotter, CopyDataset)
    /\ IngestDataset \in DOMAIN last.observed.provisionedStorage
    /\ IngestDataset \notin DOMAIN status.provisionedStorage

\* C5, as stated: after a planning run that dropped the entry of D (D had an entry and
\* the planner did not ask for it again), the status has no entry for D and the bucket
\* recorded for D is deleted.
C5DroppedBucketDeleted ==
    \A d \in DataSets :
        (/\ Called
         /\ last.mode = "plan"
         /\ d \in DOMAIN last.observed.provisionedStorage
         /\ d \notin DataIDs
         /\ Event("removeEntry", d) \in Calls)
        => /\ d \notin DOMAIN last.st.provisionedStorage
           /\ ~getDatasetAsUnstructured(buckets,
                                        last.observed.provisionedStorage[d].datasetRef)

\* the entry of D is gone from the stored status and the bucket of D is still there
C5Witness ==
    /\ Called
    /\ last.mode = "plan"
    /\ last.err = ""
    /\ CopyDataset \in DOMAIN last.observed.provisionedStorage
    /\ CopyDataset \notin DOMAIN status.provisionedStorage
    /\ Event("DeleteDataset", BucketName(CopyDataset, 1)) \in Calls
    /\ getDatasetAsUnstructured(buckets, BucketName(CopyDataset, 1))

\* C6: in a planning run that gets to the plotter create/update, every entry of the
\* status that the planner did not ask for again has had its DeleteDataset call and
\* has been removed from the status before that call.
C6CleanUpBeforePlotter ==
    (Called /\ last.mode = "plan" /\ PlotterCallAt > 0)
    => \A d \in DOMAIN last.observed.provisionedStorage \ DataIDs :
          /\ \E i \in 1..(PlotterCallAt - 1), j \in 1..(PlotterCallAt - 1) :
                /\ last.trace[i] =
                     Event("DeleteDataset", last.observed.provisionedStorage[d].datasetRef)
                /\ last.trace[j] = Event("removeEntry", d)
          /\ d \notin DOMAIN last.st.provisionedStorage

\* a planning run that wrote the plotter after dropping an entry
C6Witness ==
    /\ Called
    /\ last.mode = "plan"
    /\ last.written
    /\ DOMAIN last.observed.provisionedStorage \ DataIDs # {}

\* C7: after a Reconcile call in which reconcileFinalizers returned no error, the
\* finalizer is on an application that is not being deleted and off one that is.
C7FinalizerFollowsDeletion ==
    (Called /\ last.mode \in {"plan", "observe", "deleting"})
    => (meta.finalizer <=> ~meta.deleting)

\* a teardown that deleted a bucket and the plotter and took the finalizer off
C7Witness ==
    /\ Called
    /\ last.mode = "deleting"
    /\ ~meta.finalizer
    /\ Event("DeleteDataset", BucketName(CopyDataset, 1)) \in Calls
    /\ Event("DeleteResource", "") \in Calls

\* the teardown of this step: a bucket deletion fails, the plotter deletion fails
BucketDeletionFails ==
    \E d \in DOMAIN status.provisionedStorage :
        LET ref == status.provisionedStorage[d].datasetRef
        IN ~getDatasetAsUnstructured(buckets, ref) \/ Fails(last'.fault, "DeleteDataset", ref)

PlotterDeletionFails ==
    /\ ~BucketDeletionFails
    /\ status.generated # NilRef
    /\ ~plotter.exists \/ Fails(last'.fault, "DeleteResource", "")

\* C8: a Reconcile call on an application that is being deleted takes the finalizer
\* off only when every bucket of the status and the generated plotter are deleted; when
\* a bucket deletion or the plotter deletion fails the finalizer stays and the call
\* returns the error; a call in which a bucket deletion failed leaves the plotter.
C8FinalizerAfterTeardown ==
    [][(last'.op = "Reconcile" /\ meta.deleting /\ meta.finalizer)
       => /\ ~meta'.finalizer
             => /\ \A d \in DOMAIN status.provisionedStorage :
                      /\ Event("DeleteDataset", status.provisionedStorage[d].datasetRef)
                           \in Range(last'.trace)
                      /\ ~getDatasetAsUnstructured(buckets',
                                                   status.provisionedStorage[d].datasetRef)
                /\ status.generated # NilRef => ~plotter'.exists
          /\ (BucketDeletionFails \/ PlotterDeletionFails)
             => (meta'.finalizer /\ last'.err # "")
          /\ BucketDeletionFails => plotter' = plotter]_vars

\* a teardown in which the deletion of one bucket failed after the other one was
\* deleted: the plotter and the finalizer are still there
C8Witness ==
    /\ Called
    /\ meta.deleting
    /\ meta.finalizer
    /\ last.fault[1] = "DeleteDataset"
    /\ last.err # ""
    /\ \E b \in Buckets : b # last.fault[2] /\ Event("DeleteDataset", b) \in Calls
    /\ plotter.exists

\* C9: the stored observedGeneration never decreases and never exceeds the generation.
C9ObservedGenerationMonotone ==
    [][/\ status'.observedGeneration >= status.observedGeneration
       /\ status'.observedGeneration <= meta'.generation]_vars

\* the status is in sync with the second generation
C9Witness ==
    /\ meta.generation = 2
    /\ status.observedGeneration = 2

\* C10: a Reconcile call reads the plotter's state only when the status names an
\* existing plotter whose appVersion is the generation and observedGeneration is the
\* generation; otherwise it plans, and a planning run copies nothing of the plotter's
\* state: it leaves Ready false unless spec.data is empty, and no access instructions.
C10ReplanUnlessInSync ==
    [][(last'.op = "Reconcile" /\ Exists(meta) /\ ~meta.deleting)
       => /\ last'.mode = "observe"
             => /\ status.generated # NilRef
                /\ plotter.exists
                /\ status.generated.appVersion = meta.generation
                /\ status.observedGeneration = meta.generation
          /\ last'.mode = "plan"
             => /\ last'.st.ready => data = <<>>
                /\ last'.st.dataAccessInstructions = ""
                /\ last'.err = "" => (status'.ready => data = <<>>)]_vars

\* a planning run of the second generation, made while the plotter of the first
\* generation reports ready: the application is not Ready
C10Witness ==
    /\ Called
    /\ last.mode = "plan"
    /\ meta.generation = 2
    /\ last.observed.generated # NilRef
    /\ last.observed.generated.appVersion = 1
    /\ last.observed.ready
    /\ plotter.exists
    /\ plotter.observedState.ready
    /\ ~status.ready

\* C11, as stated: after a Reconcile call, a stored status with observedGeneration
\* equal to the generation names a plotter whose appVersion is the generation.
C11InSyncNamesGeneration ==
    (Called /\ Exists(meta) /\ status.observedGeneration = meta.generation)
    => /\ status.generated # NilRef
       /\ status.generated.appVersion = meta.generation

\* C11, amended: after a Reconcile call that returned no error and whose planning run
\* got the plotter created or updated, or that read the plotter's state, the stored
\* status has observedGeneration equal to the generation and names a plotter whose
\* appVersion is the generation.
C11GeneratedNamesGeneration ==
    (/\ Called
     /\ last.err = ""
     /\ \/ /\ last.mode = "plan"
           /\ PlotterCallAt > 0
           /\ last.fault[1] # "CreateOrUpdateResource"
        \/ last.mode = "observe")
    => /\ status.observedGeneration = meta.generation
       /\ status.generated # NilRef
       /\ status.generated.appVersion = meta.generation

\* the plotter of the second generation has been written
C11Witness ==
    /\ Called
    /\ last.mode = "plan"
    /\ last.err = ""
    /\ last.written
    /\ meta.generation = 2
    /\ status.generated # NilRef
    /\ status.generated.appVersion = 2
    /\ status.observedGeneration = 2

\* C12, as stated: a Reconcile call for an empty spec.data, in which no call to the API
\* server is refused, leaves the buckets of the status it read and the plotter it
\* named deleted, writes no plotter, stores Ready with no Deny or Error message and
\* returns no error and an empty result.
C12EmptyDataReady ==
    (Called /\ last.mode = "plan" /\ data = <<>> /\ last.fault = NoFault)
    => /\ \A d \in DOMAIN last.observed.provisionedStorage :
             ~getDatasetAsUnstructured(buckets, last.observed.provisionedStorage[d].datasetRef)
       /\ last.observed.generated # NilRef => ~plotter.exists
       /\ ~last.written
       /\ PlotterCallAt = 0
       /\ last.err = ""
       /\ last.requeueAfter = 0
       /\ status.ready
       /\ ~errorOrDeny(status)
       /\ Messages(status) = {}

\* a Reconcile call for an empty spec.data, with no fault, that returns an error and
\* leaves the application not Ready: the bucket the status names is already deleted
C12Witness ==
    /\ Called
    /\ last.mode = "plan"
    /\ data = <<>>
    /\ last.fault = NoFault
    /\ last.err # ""
    /\ ~status.ready
    /\ \E d \in DOMAIN status.provisionedStorage :
          ~getDatasetAsUnstructured(buckets, status.provisionedStorage[d].datasetRef)

\* the stored status is in sync: it names the existing plotter with the appVersion of
\* the generation, and observedGeneration is the generation
InSync ==
    /\ Exists(meta)
    /\ ~meta.deleting
    /\ status.generated # NilRef
    /\ plotter.exists
    /\ status.generated.appVersion = meta.generation
    /\ status.observedGeneration = meta.generation

\* C13: when the status is in sync and the plotter reports an error, a Reconcile call
\* that can read the plotter ends with the Error condition holding exactly that error,
\* Ready false, no access instructions and no SetPersistent or RegisterAsset call; when
\* it returns no error this is the stored status.
C13PlotterErrorSurfaces ==
    [][(/\ last'.op = "Reconcile"
        /\ InSync
        /\ plotter.observedState.error # ""
        /\ last'.fault[1] \notin {"Update", "GetResourceStatus"})
       => /\ last'.mode = "observe"
          /\ last'.st.error = [status |-> TRUE,
                               message |-> <<<<"", plotter.observedState.error>>>>]
          /\ ~last'.st.deny.status
          /\ ~last'.st.ready
          /\ last'.st.dataAccessInstructions = ""
          /\ \A e \in Range(last'.trace) : e[1] \notin {"SetPersistent", "RegisterAsset"}
          /\ assets' = assets
          /\ buckets' = buckets
          /\ last'.err = "" => status' = last'.st]_vars

\* the plotter reports ready together with an error, for an application that asks for
\* a registration: the stored status has the Error condition and nothing is registered
C13Witness ==
    /\ Called
    /\ last.mode = "observe"
    /\ last.err = ""
    /\ plotter.observedState.ready
    /\ plotter.observedState.error = OrchestrationError
    /\ \E i \in DOMAIN data : data[i].catalogID # ""
    /\ status.error.status
    /\ ~status.ready
    /\ assets = {}

\* a data context declares a catalog id and its dataset is not in catalogedAssets
RegistrationPending ==
    \E i \in DOMAIN data :
        data[i].catalogID # "" /\ data[i].dataSetID \notin DOMAIN status.catalogedAssets

\* C14: when the status is in sync, the plotter reports ready with no error and no
\* registration is pending, a Reconcile call that can read the plotter ends with Ready
\* true, no Error and no Deny condition whatever the status held before, and the
\* plotter's access instructions; when it returns no error this is the stored status.
C14PlotterReadySurfaces ==
    [][(/\ last'.op = "Reconcile"
        /\ InSync
        /\ plotter.observedState.ready
        /\ plotter.observedState.error = ""
        /\ ~RegistrationPending
        /\ last'.fault[1] \notin {"Update", "GetResourceStatus"})
       => /\ last'.mode = "observe"
          /\ last'.st.ready
          /\ last'.st.error = NoCondition
          /\ last'.st.deny = NoCondition
          /\ last'.st.dataAccessInstructions = plotter.observedState.dataAccessInstructions
          /\ last'.err = "" => status' = last'.st]_vars

\* the application had an Error condition from a plotter error and is now Ready with
\* the plotter's access instructions
C14Witness ==
    /\ Called
    /\ last.mode = "observe"
    /\ last.err = ""
    /\ last.observed.error.status
    /\ <<"", OrchestrationError>> \in Range(last.observed.error.message)
    /\ status.ready
    /\ ~status.error.status
    /\ status.dataAccessInstructions = "instructions"

\* C15: the stored status, and the status a Reconcile call holds when it returns, have
\* access instructions only with Ready true and neither Deny nor Error; a planning run
\* ends with no access instructions, and so does a call that read a plotter state that
\* is not ready or is in error; a status update that is not refused stores the status
\* the call holds.
C15InstructionsOnlyWhenReady ==
    /\ status.dataAccessInstructions # "" => (status.ready /\ ~errorOrDeny(status))
    /\ last.st.dataAccessInstructions # "" => (last.st.ready /\ ~errorOrDeny(last.st))
    /\ (Called /\ last.mode = "plan") => last.st.dataAccessInstructions = ""
    /\ (/\ Called
        /\ last.mode = "observe"
        /\ last.fault[1] # "GetResourceStatus"
        /\ ~plotter.observedState.ready \/ plotter.observedState.error # "")
       => last.st.dataAccessInstructions = ""
    /\ (/\ Called
        /\ Event("StatusUpdate", "") \in Calls
        /\ last.fault[1] # "StatusUpdate")
       => status = last.st

\* an application that had access instructions loses them when the plotter stops
\* reporting ready
C15Witness ==
    /\ Called
    /\ last.mode = "observe"
    /\ last.err = ""
    /\ last.observed.ready
    /\ last.observed.dataAccessInstructions = "instructions"
    /\ ~plotter.observedState.ready
    /\ plotter.observedState.error = ""
    /\ status.dataAccessInstructions = ""
    /\ ~status.ready

\* C16: a Reconcile call on an application that is not being deleted, which returns no
\* error, returns RequeueAfter = 10 s when the status it leaves is not final (not Ready,
\* no Deny, no Error) and an empty result when it is final; the status it leaves is the
\* stored status.
C16RequeueUnlessFinal ==
    (Called /\ last.mode \in {"plan", "observe"} /\ last.err = "")
    => /\ status = last.st
       /\ ~inFinalState(status) => last.requeueAfter = RequeueNotFinal
       /\ inFinalState(status) => last.requeueAfter = 0
       /\ inFinalState(status) <=> (status.ready \/ status.deny.status \/ status.error.status)

\* a call that read a plotter state that is neither ready nor in error is requeued
C16Witness ==
    /\ Called
    /\ last.mode = "observe"
    /\ last.err = ""
    /\ ~inFinalState(status)
    /\ last.requeueAfter = RequeueNotFinal

\* the planning run of the last call checked the buckets of the status and stopped at
\* one that is not provisioned or cannot be read: it made no plotter call
BucketNotReady ==
    /\ Called
    /\ last.mode = "plan"
    /\ Event("GetDatasetStatus", "") \in Calls
    /\ PlotterCallAt = 0

\* C17, as stated: a Reconcile call whose planning run found a bucket of the status not
\* provisioned returns RequeueAfter = 2 s.
C17RequeueStorage ==
    BucketNotReady => last.requeueAfter = RequeueStorage

\* a Reconcile call with no fault whose planning run found the bucket it had just
\* created not provisioned: it returns no error and RequeueAfter = 10 s
C17Witness ==
    /\ BucketNotReady
    /\ last.fault = NoFault
    /\ Event("CreateDataset", BucketName(CopyDataset, 1)) \in Calls
    /\ buckets[BucketName(CopyDataset, 1)].provision = "pending"
    /\ last.err = ""
    /\ last.requeueAfter = RequeueNotFinal

PlanningFailed ==
    /\ Called
    /\ last.mode = "plan"
    /\ last.err # ""
    /\ ~(last.fault[1] = "StatusUpdate" /\ last.err = TransportError)

\* C19: when the planning run returns an error, the Reconcile call updates the status
\* exactly when the status it holds differs from the one it read, an update that is
\* not refused stores the status it holds, the call returns the error, and
\* observedGeneration stays what it was.
C19StatusWrittenOnPlanError ==
    PlanningFailed
    => /\ last.st # last.observed <=> Event("StatusUpdate", "") \in Calls
       /\ (last.st # last.observed /\ last.fault[1] # "StatusUpdate") => status = last.st
       /\ (last.st = last.observed \/ last.fault[1] = "StatusUpdate")
          => status = last.observed
       /\ last.st.observedGeneration = last.observed.observedGeneration
       /\ status.observedGeneration = last.observed.observedGeneration

\* the planning run of the second generation failed: the Ready condition of the first
\* generation is gone from the stored status and observedGeneration is still 1
C19Witness ==
    /\ PlanningFailed
    /\ meta.generation = 2
    /\ last.observed.ready
    /\ last.observed.observedGeneration = 1
    /\ Event("StatusUpdate", "") \in Calls
    /\ ~status.ready
    /\ status.observedGeneration = 1

\* the dataset ids of the data contexts that declare a catalog id
CatalogIDs == {data[i].dataSetID : i \in {j \in DOMAIN data : data[j].catalogID # ""}}

\* C20: when the status is in sync and the plotter reports ready with no error, a
\* Reconcile call that can read the plotter sets Ready only with an entry in
\* catalogedAssets for every data context that declares a catalog id; when no
\* SetPersistent or RegisterAsset call is refused, every such data context with no
\* entry yet has its bucket marked persistent, is registered, and gets the returned
\* asset id as its entry, and the entries that were there are left alone.
C20ReadyAfterRegistration ==
    [][(/\ last'.op = "Reconcile"
        /\ InSync
        /\ plotter.observedState.ready
        /\ plotter.observedState.error = ""
        /\ last'.fault[1] \notin {"Update", "GetResourceStatus"})
       => /\ last'.mode = "observe"
          /\ last'.st.ready => CatalogIDs \subseteq DOMAIN last'.st.catalogedAssets
          /\ (last'.err = "" /\ status'.ready)
             => CatalogIDs \subseteq DOMAIN status'.catalogedAssets
          /\ \A d \in DOMAIN status.catalogedAssets :
                /\ d \in DOMAIN last'.st.catalogedAssets
                /\ last'.st.catalogedAssets[d] = status.catalogedAssets[d]
                /\ Event("RegisterAsset", d) \notin Range(last'.trace)
          /\ last'.fault[1] \notin {"SetPersistent", "RegisterAsset"}
             => /\ last'.st.ready
                /\ \A d \in CatalogIDs \ DOMAIN status.catalogedAssets :
                      /\ d \in DOMAIN status.provisionedStorage
                      /\ Event("SetPersistent", status.provisionedStorage[d].datasetRef)
                           \in Range(last'.trace)
                      /\ buckets'[status.provisionedStorage[d].datasetRef].persistent
                      /\ Event("RegisterAsset", d) \in Range(last'.trace)
                      /\ d \in assets'
                      /\ last'.st.catalogedAssets[d] = "new-asset"]_vars

\* two data contexts declare a catalog id: both buckets are persistent, both datasets
\* are registered and the application is Ready
C20Witness ==
    /\ Called
    /\ last.mode = "observe"
    /\ last.err = ""
    /\ CatalogIDs = {CopyDataset, IngestDataset}
    /\ last.observed.catalogedAssets = EmptyMap
    /\ DOMAIN status.catalogedAssets = {CopyDataset, IngestDataset}
    /\ assets = {CopyDataset, IngestDataset}
    /\ \A d \in CatalogIDs : buckets[status.provisionedStorage[d].datasetRef].persistent
    /\ status.ready

\* the last call read a ready plotter and its SetPersistent call, or its RegisterAsset
\* call, was refused
RegistrationFailed(call) ==
    /\ Called
    /\ last.mode = "observe"
    /\ last.fault[1] = call
    /\ \E e \in Calls : e[1] = call

\* C21, as stated: a Reconcile call in which SetPersistent or RegisterAsset failed
\* returns no error and leaves a stored status, the one it holds, that is not Ready and
\* has no Error condition.
C21RegistrationFailureNotFatal ==
    (RegistrationFailed("SetPersistent") \/ RegistrationFailed("RegisterAsset"))
    => /\ last.err = ""
       /\ status = last.st
       /\ ~status.ready
       /\ ~status.error.status

\* C21, amended: a Reconcile call in which RegisterAsset failed returns no error and
\* RequeueAfter = 10 s and stores the status it holds, not Ready and with no Error or
\* Deny condition; a call in which SetPersistent failed returns the error with an empty
\* result and stores nothing; after both the registration is still pending for a
\* status that is in sync, so that the next call attempts it again.
C21RegisterAssetFailureNotFatal ==
    /\ RegistrationFailed("RegisterAsset")
       => /\ last.err = ""
          /\ last.requeueAfter = RequeueNotFinal
          /\ status = last.st
          /\ ~status.ready
          /\ ~errorOrDeny(status)
          /\ status.dataAccessInstructions = ""
          /\ InSync
          /\ RegistrationPending
    /\ RegistrationFailed("SetPersistent")
       => /\ last.err # ""
          /\ last.requeueAfter = 0
          /\ status = last.observed
          /\ Event("StatusUpdate", "") \notin Calls
          /\ InSync
          /\ RegistrationPending

\* the registration of the second of two datasets failed after the first was
\* registered: the first has its entry, the application is not Ready
C21Witness ==
    /\ RegistrationFailed("RegisterAsset")
    /\ last.err = ""
    /\ DOMAIN status.catalogedAssets # {}
    /\ RegistrationPending
    /\ ~status.ready

\* the Dataset ds holds the four values of the bucket b
HoldsBucket(ds, b) ==
    /\ ds.exists
    /\ ds.local["bucket"] = b.Name
    /\ ds.local["endpoint"] = b.Endpoint
    /\ ds.local["secret-name"] = b.SecretRef.Name
    /\ ds.local["secret-namespace"] = b.SecretRef.Namespace

\* C22: a CreateDataset call for a name whose Dataset holds the requested bucket,
\* endpoint, secret name and secret namespace changes nothing; one whose Dataset
\* differs deletes it and creates a new one, and one for a free name creates one
\* (when no client call is refused); every Dataset a call creates holds the requested
\* values, the owner label and remove-on-delete = "true"; a second call with the same
\* arguments after a call that returned no error changes nothing.
C22CreateDatasetIdempotent ==
    [][pcall'.op = "CreateDataset"
       => /\ HoldsBucket(cluster[pcall'.ref], pcall'.bucket)
             => /\ cluster' = cluster
                /\ pcall'.fault # "Get" => (pcall'.err = "" /\ pcall'.trace = <<"Get">>)
          /\ (/\ cluster[pcall'.ref].exists
              /\ ~HoldsBucket(cluster[pcall'.ref], pcall'.bucket)
              /\ pcall'.fault = "")
             => /\ pcall'.err = ""
                /\ pcall'.trace = <<"Get", "Get", "Delete", "Create">>
                /\ cluster'[pcall'.ref] = newDataset(pcall'.bucket, pcall'.owner)
          /\ (~cluster[pcall'.ref].exists /\ pcall'.fault \notin {"Create"})
             => /\ pcall'.err = ""
                /\ cluster'[pcall'.ref] = newDataset(pcall'.bucket, pcall'.owner)
          /\ (cluster'[pcall'.ref].exists /\ cluster'[pcall'.ref] # cluster[pcall'.ref])
             => /\ HoldsBucket(cluster'[pcall'.ref], pcall'.bucket)
                /\ cluster'[pcall'.ref].labels["fybrik.io/owner"]
                     = pcall'.owner.Namespace \o "." \o pcall'.owner.Name
                /\ cluster'[pcall'.ref].labels["remove-on-delete"] = "true"
          /\ (/\ pcall.op = "CreateDataset"
              /\ pcall.err = ""
              /\ pcall'.ref = pcall.ref
              /\ pcall'.bucket = pcall.bucket
              /\ pcall'.owner = pcall.owner
              /\ pcall'.fault = "")
             => (cluster' = cluster /\ pcall'.err = "")]_vars

\* a CreateDataset call that deleted the Dataset under the name, which held other
\* values, and created the requested one
C22Witness ==
    /\ pcall.op = "CreateDataset"
    /\ pcall.err = ""
    /\ pcall.trace = <<"Get", "Get", "Delete", "Create">>
    /\ pcall.bucket.Endpoint = "http://neverland"
    /\ pcall.owner.Name = "ingest"
    /\ cluster[pcall.ref] = newDataset(pcall.bucket, pcall.owner)

------------------------------------------------------------------------------
(* Properties of the Selector.  They read the record of the last call       *)
(* (scall), the Selector and the registry.                                 *)

\* the capability blocks of the module for the capability
Blocks(module, capability) ==
    {module.Capabilities[i] :
        i \in {j \in DOMAIN module.Capabilities :
                 module.Capabilities[j].Capability = capability}}

\* a block of the module for the capability matches the interface the Selector asks for
MatchesInterface(module, m) ==
    \E block \in Blocks(module, m.Capability) :
        \/ m.Capability = Read /\ block.API = m.Destination
        \/ /\ m.Capability = Copy
           /\ \E k \in DOMAIN block.SupportedInterfaces :
                 block.SupportedInterfaces[k] = InOut(m.Source, m.Destination)

\* the module itself declares every action the Selector asks for
DeclaresActions(module, m) ==
    \A k \in DOMAIN m.Actions :
        \E block \in Blocks(module, m.Capability) :
            \E l \in DOMAIN block.Actions : block.Actions[l] = m.Actions[k]

\* the names the modules of the set depend on as modules
DependsOn(names, moduleMap) ==
    UNION {{moduleMap[n].Dependencies[k].Name :
              k \in {l \in DOMAIN moduleMap[n].Dependencies :
                       moduleMap[n].Dependencies[l].Type = Module}} :
           n \in names \cap DOMAIN moduleMap}

\* the names reached from the set by following dependencies
RECURSIVE Reached(_, _)
Reached(names, moduleMap) ==
    IF DependsOn(names, moduleMap) \subseteq names THEN names
    ELSE Reached(names \cup DependsOn(names, moduleMap), moduleMap)

\* the transitive module dependencies of the module
TransitiveDependencies(module, moduleMap) ==
    Reached(DependsOn({module.Name}, moduleMap), moduleMap)

\* the selection predicate
Satisfies(module, m, moduleMap) ==
    /\ Blocks(module, m.Capability) # {}
    /\ MatchesInterface(module, m)
    /\ DeclaresActions(module, m)
    /\ TransitiveDependencies(module, moduleMap) \subseteq DOMAIN moduleMap

\* C23: SelectModule returns true with a module of the registry that declares the
\* capability, matches the interface, declares every required action (id and level)
\* itself and has every transitive module dependency in the registry; it returns
\* false only when no module of the registry is such a module.
C23SelectModulePredicate ==
    scall.op = "SelectModule"
    => /\ scall.result = "true"
          => /\ sel.Module \in Range(registry)
             /\ Satisfies(sel.Module, scall.before, registry)
       /\ scall.result = "false"
          => \A name \in DOMAIN registry : ~Satisfies(registry[name], scall.before, registry)

\* SelectModule passed over a module without the capability and returned true with a
\* module whose dependencies, one of them reached through another, are in the registry
C23Witness ==
    /\ scall.op = "SelectModule"
    /\ scall.result = "true"
    /\ scall.before.Actions = <<RedactColumn>>
    /\ scall.before.Destination = ArrowFlight
    /\ scall.order = <<"helper", "read-deps", "base">>
    /\ sel.Module.Name = "read-deps"
    /\ Len(sel.Dependencies) = 3


\* a block of the module for write has the api the Selector asks for as destination
MatchesWrite(module, m) ==
    \E block \in Blocks(module, Write) : block.API = m.Destination

\* C24: for the capability write SelectModule returns true when a module of the
\* registry declares a write block whose api protocol and data format equal the
\* destination, declares the required actions and has its dependencies in the registry.
C24WriteMatchesLikeRead ==
    (/\ scall.op = "SelectModule"
     /\ scall.before.Capability = Write
     /\ \E name \in DOMAIN registry :
           /\ MatchesWrite(registry[name], scall.before)
           /\ DeclaresActions(registry[name], scall.before)
           /\ TransitiveDependencies(registry[name], registry) \subseteq DOMAIN registry)
    => (scall.result = "true" /\ MatchesWrite(sel.Module, scall.before))

\* SelectModule returned false for write although the only module of the registry
\* declares a write block with the destination as api and the required action
C24Witness ==
    /\ scall.op = "SelectModule"
    /\ scall.before.Capability = Write
    /\ scall.before.Destination = S3Parquet
    /\ scall.before.Actions = <<RedactColumn>>
    /\ DOMAIN registry = {"write-s3"}
    /\ scall.result = "false"
    /\ sel.Module = NoModule
    /\ sel.Message = <<"write : ModuleNotFound">>


\* C25: the module SelectModule selects does not depend on the order in which the
\* range over the registry visits the modules: every order gives the result and the
\* module of the call.
C25SelectModuleDeterministic ==
    scall.op = "SelectModule"
    => \A order \in Orders(DOMAIN registry) :
          /\ SelectModule(scall.before, order, registry).result = scall.result
          /\ scall.result = "true"
             => SelectModule(scall.before, order, registry).sel.Module = sel.Module

\* two modules of the registry satisfy the selection predicate, the call selected the
\* one the range visited first, and the other order selects the other one
C25Witness ==
    /\ scall.op = "SelectModule"
    /\ DOMAIN registry = {"read-path", "read-split"}
    /\ Satisfies(registry["read-path"], scall.before, registry)
    /\ Satisfies(registry["read-split"], scall.before, registry)
    /\ scall.order = <<"read-split", "read-path">>
    /\ scall.result = "true"
    /\ sel.Module.Name = "read-split"
    /\ SelectModule(scall.before, <<"read-path", "read-split">>, registry).sel.Module.Name
         = "read-path"


\* the names of the modules of a list
Names(modules) == [i \in DOMAIN modules |-> modules[i].Name]

\* the modules the call of SelectModule visited: all of them when it returned false,
\* those up to the selected one when it returned true
Visited ==
    IF scall.result = "true"
    THEN {scall.order[i] :
            i \in {j \in DOMAIN scall.order :
                     \A k \in 1..(j - 1) : scall.order[k] # sel.Module.Name}}
    ELSE Range(scall.order)

\* the transitive dependencies of the module that the registry does not hold
MissingDependencies(module, moduleMap) ==
    TransitiveDependencies(module, moduleMap) \ DOMAIN moduleMap

\* what the call appended to the dependency list of the Selector
Appended ==
    SubSeq(sel.Dependencies, Len(scall.before.Dependencies) + 1, Len(sel.Dependencies))

\* C26: SelectModule selects a module only if every transitive module dependency of
\* it is in the registry, and it appends these dependencies, and nothing else, to the
\* dependency list of the Selector; of a visited module that matches the interface
\* and the actions and has missing dependencies, the name and the missing names are
\* in the message, and the message of a failed call ends with the capability and
\* ModuleNotFound.
C26DependenciesResolved ==
    (scall.op = "SelectModule" /\ scall.result \in {"true", "false"})
    => /\ scall.result = "true"
          => /\ MissingDependencies(sel.Module, registry) = {}
             /\ Len(sel.Dependencies) >= Len(scall.before.Dependencies)
             /\ SubSeq(sel.Dependencies, 1, Len(scall.before.Dependencies))
                  = scall.before.Dependencies
             /\ Range(Names(Appended)) = TransitiveDependencies(sel.Module, registry)
             /\ \A i \in DOMAIN Appended : Appended[i] = registry[Appended[i].Name]
       /\ \A name \in Visited :
             (/\ MatchesInterface(registry[name], scall.before)
              /\ DeclaresActions(registry[name], scall.before)
              /\ MissingDependencies(registry[name], registry) # {})
             => /\ scall.result = "true" => sel.Module.Name # name
                /\ (name \o " has missing dependencies: ") \in Range(sel.Message)
                /\ \A missing \in MissingDependencies(registry[name], registry) :
                      ("\n" \o missing) \in Range(sel.Message)
       /\ scall.result = "false"
          => /\ Len(sel.Message) > 0
             /\ sel.Message[Len(sel.Message)] = scall.before.Capability \o " : " \o ModuleNotFound

\* C26 as stated: the dependency list of the Selector after a call that selected a
\* module is the list of the transitive dependencies of the module, each of them once.
C26DependencyListExact ==
    (scall.op = "SelectModule" /\ scall.result = "true")
    => /\ Range(Names(sel.Dependencies)) = TransitiveDependencies(sel.Module, registry)
       /\ Len(sel.Dependencies) = Cardinality(TransitiveDependencies(sel.Module, registry))

\* SelectModule rejected the only read module, whose dependency base is missing from
\* the registry, once directly and once through helper, and returned false
C26Witness ==
    /\ scall.op = "SelectModule"
    /\ scall.result = "false"
    /\ DOMAIN registry = {"read-deps", "helper"}
    /\ scall.before.Actions = <<RedactColumn>>
    /\ sel.Message = <<"read-deps has missing dependencies: ", "\nbase", "\nbase", "\n",
                       "read : ModuleNotFound">>


\* the regions of the clusters of the last SelectCluster call
ClusterRegions == {scall.clusters[i].Metadata.Region : i \in DOMAIN scall.clusters}

\* the last SelectCluster call returned the first cluster of the region
PlacedFirstIn(region) ==
    /\ scall.err = ""
    /\ \E i \in DOMAIN scall.clusters :
          /\ scall.clusters[i].Name = scall.cluster
          /\ scall.clusters[i].Metadata.Region = region
          /\ \A j \in 1..(i - 1) : scall.clusters[j].Metadata.Region # region

\* the last SelectCluster call failed for want of a cluster in the region
NoClusterIn(region) ==
    /\ scall.cluster = ""
    /\ scall.err = InvalidClusterConfiguration
                   \o "\nNo clusters have been found for running "
                   \o sel.Module.Name \o " in " \o region

\* the last SelectCluster call placed the module in the region or failed for want of
\* a cluster there
PlacedIn(region) ==
    IF region \in ClusterRegions THEN PlacedFirstIn(region) ELSE NoClusterIn(region)

\* C27: SelectCluster places a selected read module on the first cluster of the
\* processing location, a selected copy module with a required action on the first
\* cluster of the dataset's geography, a selected copy module without required
\* actions on the first cluster of the processing location, and fails with
\* InvalidClusterConfiguration, the module and the region when no cluster is there.
C27SelectClusterPlacement ==
    (scall.op = "SelectCluster" /\ sel.Module # NoModule)
    => /\ sel.Capability = Read => PlacedIn(sel.Geo)
       /\ (sel.Capability = Copy /\ Len(sel.Actions) > 0) => PlacedIn(scall.geography)
       /\ (sel.Capability = Copy /\ Len(sel.Actions) = 0) => PlacedIn(sel.Geo)

\* a copy module with a required action was placed on the cluster of the dataset's
\* geography, which is not the processing location and not the first of the list
C27Witness ==
    /\ scall.op = "SelectCluster"
    /\ sel.Capability = Copy
    /\ sel.Module # NoModule
    /\ sel.Module.Name = "copy-db2"
    /\ sel.Actions = <<RedactColumn>>
    /\ sel.Geo = "theshire"
    /\ scall.geography = "neverland"
    /\ Len(scall.clusters) = 3
    /\ scall.cluster = "neverland-cluster"


\* C28: for a Selector with the capability write SelectCluster returns the first
\* cluster whose region is the processing location (Selector.Geo), whatever the
\* geography of the dataset.
C28WritePlacedAtProcessingLocation ==
    (scall.op = "SelectCluster" /\ sel.Capability = Write /\ sel.Geo \in ClusterRegions)
    => PlacedFirstIn(sel.Geo)

\* SelectCluster put a write module on the cluster of the dataset's geography although
\* the list starts with a cluster of the processing location
C28Witness ==
    /\ scall.op = "SelectCluster"
    /\ sel.Capability = Write
    /\ sel.Geo = "theshire"
    /\ scall.geography = "neverland"
    /\ Len(scall.clusters) = 3
    /\ scall.clusters[1] = Cluster("thegreendragon", "theshire")
    /\ scall.err = ""
    /\ scall.cluster = "neverland-cluster"


------------------------------------------------------------------------------
(* Properties of Reconcile, continued.                                      *)

\* the messages of a condition that are about the dataset
About(condition, d) == {m \in Range(condition.message) : m[1] = d}

\* C29, amended: a dataset D whose id the catalog does not know gets the Deny
\* condition with InvalidAssetID, as a dataset whose read the policy manager denies
\* gets it with ReadAccessDenied, and neither gets an Error condition for it; the
\* Reconcile call returns no error unless the update of the status fails.
C29UnknownDatasetDenied ==
    \A d \in DataSets :
        /\ (Called /\ Event("GetDatasetInfo", d) \in Calls /\ CatalogFailure(d) = InvalidAssetID)
           => /\ last.st.deny.status
              /\ About(last.st.deny, d) = {<<d, InvalidAssetID>>}
              /\ About(last.st.error, d) = {}
              /\ last.fault[1] # "StatusUpdate" => last.err = ""
        /\ (Called /\ Event("GetPoliciesDecisions", d) \in Calls
            /\ PlannerFailure(d) = ReadAccessDenied)
           => /\ last.st.deny.status
              /\ About(last.st.deny, d) = {<<d, ReadAccessDenied>>}
              /\ About(last.st.error, d) = {}
              /\ last.fault[1] # "StatusUpdate" => last.err = ""

\* C29 as stated: a dataset D whose id the catalog does not know gets an Error
\* condition with InvalidAssetID and no Deny condition.
C29UnknownDatasetIsError ==
    \A d \in DataSets :
        (Called /\ Event("GetDatasetInfo", d) \in Calls /\ CatalogFailure(d) = InvalidAssetID)
        => /\ last.st.error.status
           /\ <<d, InvalidAssetID>> \in About(last.st.error, d)
           /\ About(last.st.deny, d) = {}

\* a Reconcile call that returned no error and stored the Deny condition with
\* InvalidAssetID for the dataset the catalog does not know, and no Error condition
C29Witness ==
    /\ Called
    /\ last.err = ""
    /\ Event("GetDatasetInfo", UnknownDataset) \in Calls
    /\ status.deny.status
    /\ <<UnknownDataset, InvalidAssetID>> \in Range(status.deny.message)
    /\ ~status.error.status


\* the planning run of the last call checked the buckets of the status, and the
\* provisioner reports every one of them as failed, with its error message
BucketsFailed ==
    /\ BucketNotReady
    /\ last.fault[1] # "GetDatasetStatus"
    /\ DOMAIN last.st.provisionedStorage # {}
    /\ \A d \in DOMAIN last.st.provisionedStorage :
          buckets[last.st.provisionedStorage[d].datasetRef].provision = "failed"

\* C30: a Reconcile call whose planning run found a bucket not provisioned, with an
\* error message of the provisioner, leaves the Error condition with that message in
\* the status, writes no plotter and is retried.
C30ProvisioningErrorSurfaced ==
    BucketsFailed
    => /\ last.st.error.status
       /\ \E m \in Range(last.st.error.message) : m[2] = "provisioning failed"
       /\ PlotterCallAt = 0
       /\ (last.err # "" \/ last.requeueAfter > 0)

\* a Reconcile call that found the bucket of the copy failed: it returned the message
\* of the provisioner as its error with RequeueAfter = 2 s, wrote no plotter, and the
\* status it holds and the stored status have no Error condition
C30Witness ==
    /\ BucketsFailed
    /\ last.fault = NoFault
    /\ last.err = "provisioning failed"
    /\ last.requeueAfter = RequeueStorage
    /\ PlotterCallAt = 0
    /\ ~last.st.error.status
    /\ ~status.error.status


\* the steps of the plotter that hold the dataset: <<step, place in the step>>
StepsOf(capability, d) ==
    UNION {{<<k, j>> : j \in {i \in DOMAIN plotter.blueprints[k].assets :
                                plotter.blueprints[k].assets[i] = d}} :
           k \in {n \in DOMAIN plotter.blueprints :
                    plotter.blueprints[n].capability = capability}}

\* the arguments of the dataset in a step of the plotter
ArgumentsAt(at) == plotter.blueprints[at[1]].arguments[at[2]]

\* C31: in every plotter, when a dataset has a copy step, its read step reads the
\* destination of the copy (connection, format and credentials) and not the data store
\* of the catalog, and comes after the copy step.
C31ReadAfterCopy ==
    plotter.exists
    => \A d \in DataSets :
          \A c \in StepsOf("copy", d), r \in StepsOf("read", d) :
             /\ ArgumentsAt(r).source = ArgumentsAt(c).destination
             /\ ArgumentsAt(r).source # CatalogSource(d)
             /\ ArgumentsAt(c).source = CatalogSource(d)
             /\ c[1] < r[1]

\* a plotter whose read step reads one dataset from the catalog source and another,
\* named after it in spec.data, from the bucket of its copy
C31Witness ==
    /\ plotter.exists
    /\ StepsOf("copy", CopyDataset) = {<<1, 1>>}
    /\ StepsOf("read", CopyDataset) = {<<2, 2>>}
    /\ StepsOf("read", AllowDataset) = {<<2, 1>>}
    /\ ArgumentsAt(<<2, 1>>).source = CatalogSource(AllowDataset)
    /\ ArgumentsAt(<<2, 2>>).source = CopyDestination(BucketName(CopyDataset, 1))

\* the actions of a list
Actions(list) == {list[i] : i \in DOMAIN list}

\* the instances of the last call of AddModuleInstances that are to apply the action
InstancesApplying(action) ==
    {i \in DOMAIN scall.instances :
        action \in Actions(scall.instances[i].Args.Transformations)}

\* C32: each enforcement action of the arguments given to AddModuleInstances is in the
\* actions of exactly one of the instances the call makes for the dataset, the
\* instances of the dependencies included.
C32ActionInOneInstance ==
    scall.op = "AddModuleInstances"
    => \A action \in Actions(scall.args.Transformations) :
          Cardinality(InstancesApplying(action)) = 1

\* AddModuleInstances called with a redaction on a Selector whose module has three
\* dependencies: the four instances of the dataset all carry the redaction
C32Witness ==
    /\ scall.op = "AddModuleInstances"
    /\ sel.Module # NoModule
    /\ Len(sel.Dependencies) = 3
    /\ scall.args = ModuleArguments(<<RedactColumn>>)
    /\ Len(scall.instances) = 4
    /\ InstancesApplying(RedactColumn) = 1..4
    /\ \A i \in 1..4 : scall.instances[i].AssetID = CopyDataset

------------------------------------------------------------------------------
(* Properties of the PlotterInterface.                                     *)

\* the application (name and namespace) of a resource reference
Application(owner) == <<owner.name, owner.namespace>>

\* C33: the plotter name CreateResourceReference gives an application is the name of
\* no other application's plotter, and the plotter a call creates, overwrites or
\* deletes is not one that another application created.
C33PlotterOfOneApplication ==
    gcall.op # "none"
    => /\ \A other \in Applications :
             Application(other) # Application(gcall.owner)
             => CreateResourceReference(other).name # gcall.ref.name
       /\ gcall.before.exists => gcall.before.labels = ownerLabels(gcall.owner)

\* the application notebook of the namespace test-default has deleted the plotter that
\* the application notebook-test of the namespace default created
C33Witness ==
    /\ gcall.op = "DeleteResource"
    /\ Application(gcall.owner) = <<"notebook", "test-default">>
    /\ gcall.ref.name = "notebook-test-default"
    /\ gcall.before.exists
    /\ gcall.before.labels = [namespace |-> "default", name |-> "notebook-test"]
    /\ gcall.err = ""
    /\ ~plotters["notebook-test-default"].exists

------------------------------------------------------------------------------
(* Properties of Reconcile: repeated calls.                                *)

\* the start of a Reconcile call on the object as the step leaves it
StartAfter ==
    [meta |-> meta', st |-> status', plotter |-> plotter', buckets |-> buckets',
     assets |-> assets', trace |-> <<>>, err |-> "", result |-> 0, written |-> FALSE]

\* a Reconcile call, with the external responses of the step, on what the step leaves
\* writes neither the status nor the plotter
NothingLeftToWrite(first) ==
    /\ ReconcileCall(StartAfter, status', data', first, last'.fault).stored = status'
    /\ ReconcileCall(StartAfter, status', data', first, last'.fault).w.plotter = plotter'
    /\ ~ReconcileCall(StartAfter, status', data', first, last'.fault).w.written
    /\ Event("StatusUpdate", "")
          \notin Range(ReconcileCall(StartAfter, status', data', first,
                                     last'.fault).w.trace)

\* C34: after a Reconcile call that returned no error, a second call on the same
\* spec, the same plotter state and the same external responses writes neither the
\* status nor the plotter.
C34ReconcileIdempotent ==
    [][(last'.op = "Reconcile" /\ last'.err = "" /\ Exists(meta'))
       => \A first \in {CopyDataset, IngestDataset} : NothingLeftToWrite(first)]_vars

\* a Reconcile call, with the external responses of the step, on what the step leaves
\* does not write the plotter
NoPlotterWrite(first) ==
    /\ ReconcileCall(StartAfter, status', data', first, last'.fault).w.plotter = plotter'
    /\ ~ReconcileCall(StartAfter, status', data', first, last'.fault).w.written

\* C34 as the code has it: after a Reconcile call that returned no error, a second call
\* on the same spec, the same plotter state and the same external responses does not
\* write the plotter, and it does not write the status either unless the first call was
\* a planning run that left a generated plotter, whose state the second call is the
\* first to read.
C34ReconcileSettles ==
    [][(last'.op = "Reconcile" /\ last'.err = "" /\ Exists(meta'))
       => \A first \in {CopyDataset, IngestDataset} :
             /\ NoPlotterWrite(first)
             /\ \/ last'.mode = "plan" /\ ResourceExists(plotter', status'.generated)
                \/ NothingLeftToWrite(first)]_vars

\* a second call that had nothing to write: it read the state of a ready plotter and
\* found the status as the call before had left it
C34Witness ==
    /\ last.op = "Reconcile"
    /\ last.mode = "observe"
    /\ last.err = ""
    /\ last.fault = NoFault
    /\ plotter.exists
    /\ plotter.observedState.ready
    /\ status.ready
    /\ last.observed = status
    /\ last.st = status
    /\ ~last.written
    /\ Event("StatusUpdate", "") \notin Range(last.trace)

\* the read steps of the plotter
ReadSteps ==
    {k \in DOMAIN plotter.blueprints : plotter.blueprints[k].capability = "read"}

\* the endpoint of a read step: the release of the step in the namespace of the
\* blueprints, the port and the scheme of the last read-capability block of its module
EndpointOf(step) ==
    EndpointSpec(GenerateModuleEndpointFQDN(GetReleaseName("notebook", "default", step),
                                            BlueprintNamespace),
                 ReadEndpoints(step.template)[Len(ReadEndpoints(step.template))].Port,
                 ReadEndpoints(step.template)[Len(ReadEndpoints(step.template))].Scheme)

SomeBucketNotProvisioned ==
    \E d \in DOMAIN last'.st.provisionedStorage :
       \/ buckets'[last'.st.provisionedStorage[d].datasetRef].provision # "ok"
       \/ last'.fault[1] = "GetDatasetStatus"

\* the position of GetDatasetStatus in the trace of the step's call, 0 if there is none
StatusCallAt ==
    IF Event("GetDatasetStatus", "") \notin Range(last'.trace) THEN 0
    ELSE CHOOSE i \in DOMAIN last'.trace : last'.trace[i] = Event("GetDatasetStatus", "")

\* C36: a planning run calls CreateOrUpdateResource only after GetDatasetStatus has
\* reported Provisioned for every bucket of status.provisionedStorage; a run in which
\* some bucket is not provisioned or cannot be read makes no plotter call, leaves the
\* plotter as it is and leaves status.generated unchanged.
C36PlotterAfterBuckets ==
    [][(last'.op = "Reconcile" /\ last'.mode = "plan")
       => /\ Event("CreateOrUpdateResource", "") \in Range(last'.trace)
             => /\ ~SomeBucketNotProvisioned
                /\ DOMAIN last'.st.provisionedStorage # {}
                   => /\ StatusCallAt > 0
                      /\ \A i \in DOMAIN last'.trace :
                            last'.trace[i] = Event("CreateOrUpdateResource", "")
                            => StatusCallAt < i
          /\ SomeBucketNotProvisioned
             => /\ Event("CreateOrUpdateResource", "") \notin Range(last'.trace)
                /\ ~last'.written
                /\ plotter' = plotter
                /\ last'.st.generated = status.generated
                /\ status'.generated = status.generated]_vars

\* a planning run for the second generation that found the bucket of the new copy not
\* yet provisioned: the plotter of the first generation is still there and
\* status.generated still names the first generation
C36Witness ==
    /\ Called
    /\ last.mode = "plan"
    /\ last.err = ""
    /\ meta.generation = 2
    /\ Event("GetDatasetStatus", "") \in Calls
    /\ PlotterCallAt = 0
    /\ \E d \in DOMAIN status.provisionedStorage :
          buckets[status.provisionedStorage[d].datasetRef].provision = "pending"
    /\ plotter.exists
    /\ status.generated.appVersion = 1

\* the step is a planning run for a generation later than the one of the plotter that
\* exists, and it ends with a deny or an error condition
ReplanRefused ==
    /\ last'.op = "Reconcile"
    /\ last'.mode = "plan"
    /\ ResourceExists(plotter, status.generated)
    /\ status.generated.appVersion < meta.generation
    /\ errorOrDeny(last'.st)

------------------------------------------------------------------------------
(* Properties of the teardown under retries.                               *)

\* C38: an application with a deletion timestamp and the finalizer has its finalizer
\* removed by the repeated Reconcile calls, whatever an earlier call has already
\* deleted, once no delete call on an existing resource fails any more.
C38TeardownCompletes == (meta.deleting /\ meta.finalizer) ~> ~meta.finalizer

\* C38, as a statement about the states: as long as an application with a deletion
\* timestamp holds the finalizer, a Reconcile call in which no external call fails
\* changes something. In a state where it changes nothing the repeated calls return
\* the same result for ever and the finalizer stays.
C38RetryMakesProgress == (meta.deleting /\ meta.finalizer) => RetryEnabled

\* a Reconcile call of the teardown in which no external call was made to fail returned
\* an error: the status still records a bucket that is no longer there
C38Witness ==
    /\ Called
    /\ meta.deleting
    /\ meta.finalizer
    /\ last.fault = NoFault
    /\ last.err # ""
    /\ \E d \in DOMAIN status.provisionedStorage :
          buckets[status.provisionedStorage[d].datasetRef].provision = "absent"

------------------------------------------------------------------------------
(* Properties of the registration of assets.                               *)

\* the datasets the call of the step registers in the catalog: RegisterAsset is called
\* for them and succeeds
RegisteredAnew ==
    {d \in DataSets : /\ Event("RegisterAsset", d) \in Range(last'.trace)
                      /\ last'.fault[1] # "RegisterAsset"}

\* C39: in the Reconcile calls of one generation a dataset that has been registered in
\* the catalog is not registered again.
C39RegisteredOnce ==
    [][(last'.op = "Reconcile" /\ meta.generation = 1)
       => RegisteredAnew \cap assets = {}]_vars

\* the catalog holds the asset of the dataset, registered by an earlier call of the
\* first generation whose status write failed, and the last call has registered the
\* dataset again
C39Witness ==
    /\ Called
    /\ meta.generation = 1
    /\ last.mode = "observe"
    /\ last.fault = NoFault
    /\ faults = 1
    /\ IngestDataset \in assets
    /\ Event("RegisterAsset", IngestDataset) \in Calls
    /\ IngestDataset \in DOMAIN status.catalogedAssets
    /\ IngestDataset \notin DOMAIN last.observed.catalogedAssets


\* ---------------------------------------------------------------------------
\* C40: CheckDependencies, and therefore SelectModule, terminates for every
\* module registry, including registries in which module dependencies form a
\* cycle: every call of SelectModule returns true or false.
\* CheckDependencies calls itself for each module dependency found in the
\* registry and keeps no record of the modules already visited, so that a
\* module depending on itself is visited again at every depth.
C40SelectModuleTerminates ==
    scall.op = "SelectModule" => scall.result \in {"true", "false"}

\* SelectModule has reached a module that depends on itself, and the recursion
\* of CheckDependencies has not ended
C40Witness ==
    /\ scall.op = "SelectModule"
    /\ scall.result = "overflow"
    /\ "copy-loop" \in DOMAIN registry
    /\ \E i \in DOMAIN registry["copy-loop"].Dependencies :
          /\ registry["copy-loop"].Dependencies[i].Type = Module
          /\ registry["copy-loop"].Dependencies[i].Name = "copy-loop"

==============================================================================
